---------------------------- MODULE Spec2Model ----------------------------
(***************************************************************************)
(* A model of the cUR library: the fountain encoder, the fountain decoder  *)
(* (online Gaussian elimination over XOR) and the UR text framing around   *)
(* them.  Bytes are integers 0..255, a uint32_t that can exceed 2^31 is a  *)
(* tuple of four big-endian bytes, an index list is a sequence in the      *)
(* order the code stores it.                                               *)
(***************************************************************************)
EXTENDS Integers, Sequences, FiniteSets, TLC

(***************************************************************************)
(* Bit and byte arithmetic.                                                *)
(***************************************************************************)
RECURSIVE BitXor(_, _)
BitXor(a, b) ==
  IF a = 0 THEN b
  ELSE IF b = 0 THEN a
  ELSE (((a % 2) + (b % 2)) % 2) + 2 * BitXor(a \div 2, b \div 2)

\* the C expression a[i] ^ b[i] over the bytes of a (b is at least as long)
XorBytes(a, b) == [i \in 1..Len(a) |-> BitXor(a[i], b[i])]

Min(a, b) == IF a < b THEN a ELSE b

\* A uint32_t value v is held as v when v < 2^31 and as v - 2^32 otherwise:
\* 0xffffffff is -1, and -1 + 1 is the wrap to 0.
\* the four big-endian bytes of a uint32_t
U32Bytes(v) ==
  IF v >= 0
  THEN << (v \div 16777216) % 256, (v \div 65536) % 256, (v \div 256) % 256, v % 256 >>
  ELSE << 128 + ((((v + 2147483647) + 1) \div 16777216) % 256),
          (((v + 2147483647) + 1) \div 65536) % 256,
          (((v + 2147483647) + 1) \div 256) % 256, ((v + 2147483647) + 1) % 256 >>

\* uint32_t ++
Inc32(v) == IF v = 2147483647 THEN -2147483647 - 1 ELSE v + 1

\* a < b between uint32_t values
Less32(a, b) ==
  IF a >= 0 /\ b >= 0 THEN a < b
  ELSE IF a < 0 /\ b < 0 THEN a < b
  ELSE b < 0

Zeros(n) == [i \in 1..n |-> 0]

RECURSIVE Flatten(_)
Flatten(ss) == IF Len(ss) = 0 THEN << >> ELSE Head(ss) \o Flatten(Tail(ss))

(***************************************************************************)
(* crc32.c: nibble-table CRC-32.  The running crc is eight nibbles, most   *)
(* significant first.                                                      *)
(***************************************************************************)
crc32_table ==
  << <<0,0,0,0,0,0,0,0>>,       <<1,13,11,7,1,0,6,4>>,
     <<3,11,6,14,2,0,12,8>>,    <<2,6,13,9,3,0,10,12>>,
     <<7,6,13,12,4,1,9,0>>,     <<6,11,6,11,5,1,15,4>>,
     <<4,13,11,2,6,1,5,8>>,     <<5,0,0,5,7,1,3,12>>,
     <<14,13,11,8,8,3,2,0>>,    <<15,0,0,15,9,3,4,4>>,
     <<13,6,13,6,10,3,14,8>>,   <<12,11,6,1,11,3,8,12>>,
     <<9,11,6,4,12,2,11,0>>,    <<8,6,13,3,13,2,13,4>>,
     <<10,0,0,10,14,2,7,8>>,    <<11,13,11,13,15,2,1,12>> >>

\* crc = (crc >> 4) ^ crc32_table[(crc ^ nib) & 0x0F]
CrcStep(crc, nib) ==
  LET row == crc32_table[BitXor(crc[8], nib) + 1]
  IN  << row[1], BitXor(crc[1], row[2]), BitXor(crc[2], row[3]), BitXor(crc[3], row[4]),
         BitXor(crc[4], row[5]), BitXor(crc[5], row[6]), BitXor(crc[6], row[7]),
         BitXor(crc[7], row[8]) >>

RECURSIVE CrcLoop(_, _, _)
CrcLoop(crc, data, i) ==
  IF i > Len(data) \/ Len(crc) # 8 THEN crc
  ELSE CrcLoop(CrcStep(CrcStep(crc, data[i] % 16), data[i] \div 16), data, i + 1)

\* the result as four big-endian bytes
crc32_calculate(data) ==
  IF Len(data) = 0 THEN <<0, 0, 0, 0>>
  ELSE LET c == CrcLoop([i \in 1..8 |-> 15], data, 1)
           n == [i \in 1..8 |-> 15 - c[i]]
       IN  << n[1] * 16 + n[2], n[3] * 16 + n[4], n[5] * 16 + n[6], n[7] * 16 + n[8] >>

(***************************************************************************)
(* fountain_decoder.c: FNV-1a over an index list, in stored order.  The    *)
(* model keeps the low 32 bits of the size_t as <<high 16, low 16>>: the   *)
(* bucket (hash % capacity, capacity 64) and the uint32_t fingerprint read *)
(* only those bits, and on the index lists of the model two lists have     *)
(* equal 64-bit hashes exactly when their low 32 bits are equal.           *)
(***************************************************************************)
FNV1A_OFFSET_BASIS == <<33052, 40389>>
FNV1A_PRIME == 16777619

FnvMul(h) ==
  LET plo == FNV1A_PRIME % 65536
      phi == FNV1A_PRIME \div 65536
      lo  == h[2] * plo
  IN  << (h[1] * plo + h[2] * phi + lo \div 65536) % 65536, lo % 65536 >>

RECURSIVE FnvLoop(_, _, _)
FnvLoop(h, indexes, i) ==
  IF i > Len(indexes) THEN h
  ELSE FnvLoop(FnvMul(<< BitXor(h[1], indexes[i] \div 65536),
                         BitXor(h[2], indexes[i] % 65536) >>), indexes, i + 1)

hash_indexes(indexes) ==
  IF Len(indexes) = 0 THEN <<0, 0>> ELSE FnvLoop(FNV1A_OFFSET_BASIS, indexes, 1)

\* key_hash % hash->capacity
BucketOf(h, capacity) == (((h[1] % capacity) * (65536 % capacity)) + h[2]) % capacity

(***************************************************************************)
(* Strings are sequences of ASCII codes without the terminating NUL.       *)
(***************************************************************************)
bytewords ==
  <<
     <<97, 98, 108, 101>>, <<97, 99, 105, 100>>, <<97, 108, 115, 111>>, <<97, 112, 101, 120>>,
     <<97, 113, 117, 97>>, <<97, 114, 99, 104>>, <<97, 116, 111, 109>>, <<97, 117, 110, 116>>,
     <<97, 119, 97, 121>>, <<97, 120, 105, 115>>, <<98, 97, 99, 107>>, <<98, 97, 108, 100>>,
     <<98, 97, 114, 110>>, <<98, 101, 108, 116>>, <<98, 101, 116, 97>>, <<98, 105, 97, 115>>,
     <<98, 108, 117, 101>>, <<98, 111, 100, 121>>, <<98, 114, 97, 103>>, <<98, 114, 101, 119>>,
     <<98, 117, 108, 98>>, <<98, 117, 122, 122>>, <<99, 97, 108, 109>>, <<99, 97, 115, 104>>,
     <<99, 97, 116, 115>>, <<99, 104, 101, 102>>, <<99, 105, 116, 121>>, <<99, 108, 97, 119>>,
     <<99, 111, 100, 101>>, <<99, 111, 108, 97>>, <<99, 111, 111, 107>>, <<99, 111, 115, 116>>,
     <<99, 114, 117, 120>>, <<99, 117, 114, 108>>, <<99, 117, 115, 112>>,
     <<99, 121, 97, 110>>, <<100, 97, 114, 107>>, <<100, 97, 116, 97>>, <<100, 97, 121, 115>>,
     <<100, 101, 108, 105>>, <<100, 105, 99, 101>>, <<100, 105, 101, 116>>, <<100, 111, 111, 114>>,
     <<100, 111, 119, 110>>, <<100, 114, 97, 119>>, <<100, 114, 111, 112>>,
     <<100, 114, 117, 109>>, <<100, 117, 108, 108>>, <<100, 117, 116, 121>>, <<101, 97, 99, 104>>,
     <<101, 97, 115, 121>>, <<101, 99, 104, 111>>, <<101, 100, 103, 101>>, <<101, 112, 105, 99>>,
     <<101, 118, 101, 110>>, <<101, 120, 97, 109>>, <<101, 120, 105, 116>>, <<101, 121, 101, 115>>,
     <<102, 97, 99, 116>>, <<102, 97, 105, 114>>, <<102, 101, 114, 110>>, <<102, 105, 103, 115>>,
     <<102, 105, 108, 109>>, <<102, 105, 115, 104>>, <<102, 105, 122, 122>>, <<102, 108, 97, 112>>,
     <<102, 108, 101, 119>>, <<102, 108, 117, 120>>, <<102, 111, 120, 121>>, <<102, 114, 101, 101>>,
     <<102, 114, 111, 103>>, <<102, 117, 101, 108>>, <<102, 117, 110, 100>>, <<103, 97, 108, 97>>,
     <<103, 97, 109, 101>>, <<103, 101, 97, 114>>, <<103, 101, 109, 115>>, <<103, 105, 102, 116>>,
     <<103, 105, 114, 108>>, <<103, 108, 111, 119>>, <<103, 111, 111, 100>>, <<103, 114, 97, 121>>,
     <<103, 114, 105, 109>>, <<103, 117, 114, 117>>, <<103, 117, 115, 104>>,
     <<103, 121, 114, 111>>, <<104, 97, 108, 102>>, <<104, 97, 110, 103>>, <<104, 97, 114, 100>>,
     <<104, 97, 119, 107>>, <<104, 101, 97, 116>>, <<104, 101, 108, 112>>, <<104, 105, 103, 104>>,
     <<104, 105, 108, 108>>, <<104, 111, 108, 121>>, <<104, 111, 112, 101>>,
     <<104, 111, 114, 110>>, <<104, 117, 116, 115>>, <<105, 99, 101, 100>>, <<105, 100, 101, 97>>,
     <<105, 100, 108, 101>>, <<105, 110, 99, 104>>, <<105, 110, 107, 121>>, <<105, 110, 116, 111>>,
     <<105, 114, 105, 115>>, <<105, 114, 111, 110>>, <<105, 116, 101, 109>>, <<106, 97, 100, 101>>,
     <<106, 97, 122, 122>>, <<106, 111, 105, 110>>, <<106, 111, 108, 116>>,
     <<106, 111, 119, 108>>, <<106, 117, 100, 111>>, <<106, 117, 103, 115>>,
     <<106, 117, 109, 112>>, <<106, 117, 110, 107>>, <<106, 117, 114, 121>>,
     <<107, 101, 101, 112>>, <<107, 101, 110, 111>>, <<107, 101, 112, 116>>,
     <<107, 101, 121, 115>>, <<107, 105, 99, 107>>, <<107, 105, 108, 110>>,
     <<107, 105, 110, 103>>, <<107, 105, 116, 101>>, <<107, 105, 119, 105>>, <<107, 110, 111, 98>>,
     <<108, 97, 109, 98>>, <<108, 97, 118, 97>>, <<108, 97, 122, 121>>, <<108, 101, 97, 102>>,
     <<108, 101, 103, 115>>, <<108, 105, 97, 114>>, <<108, 105, 109, 112>>,
     <<108, 105, 111, 110>>, <<108, 105, 115, 116>>, <<108, 111, 103, 111>>,
     <<108, 111, 117, 100>>, <<108, 111, 118, 101>>, <<108, 117, 97, 117>>,
     <<108, 117, 99, 107>>, <<108, 117, 110, 103>>, <<109, 97, 105, 110>>,
     <<109, 97, 110, 121>>, <<109, 97, 116, 104>>, <<109, 97, 122, 101>>,
     <<109, 101, 109, 111>>, <<109, 101, 110, 117>>, <<109, 101, 111, 119>>,
     <<109, 105, 108, 100>>, <<109, 105, 110, 116>>, <<109, 105, 115, 115>>,
     <<109, 111, 110, 107>>, <<110, 97, 105, 108>>, <<110, 97, 118, 121>>,
     <<110, 101, 101, 100>>, <<110, 101, 119, 115>>, <<110, 101, 120, 116>>,
     <<110, 111, 111, 110>>, <<110, 111, 116, 101>>, <<110, 117, 109, 98>>,
     <<111, 98, 101, 121>>, <<111, 98, 111, 101>>, <<111, 109, 105, 116>>,
     <<111, 110, 121, 120>>, <<111, 112, 101, 110>>, <<111, 118, 97, 108>>,
     <<111, 119, 108, 115>>, <<112, 97, 105, 100>>, <<112, 97, 114, 116>>,
     <<112, 101, 99, 107>>, <<112, 108, 97, 121>>, <<112, 108, 117, 115>>,
     <<112, 111, 101, 109>>, <<112, 111, 111, 108>>, <<112, 111, 115, 101>>,
     <<112, 117, 102, 102>>, <<112, 117, 109, 97>>, <<112, 117, 114, 114>>,
     <<113, 117, 97, 100>>, <<113, 117, 105, 122>>, <<114, 97, 99, 101>>, <<114, 97, 109, 112>>,
     <<114, 101, 97, 108>>, <<114, 101, 100, 111>>, <<114, 105, 99, 104>>, <<114, 111, 97, 100>>,
     <<114, 111, 99, 107>>, <<114, 111, 111, 102>>, <<114, 117, 98, 121>>,
     <<114, 117, 105, 110>>, <<114, 117, 110, 115>>, <<114, 117, 115, 116>>,
     <<115, 97, 102, 101>>, <<115, 97, 103, 97>>, <<115, 99, 97, 114>>, <<115, 101, 116, 115>>,
     <<115, 105, 108, 107>>, <<115, 107, 101, 119>>, <<115, 108, 111, 116>>,
     <<115, 111, 97, 112>>, <<115, 111, 108, 111>>, <<115, 111, 110, 103>>,
     <<115, 116, 117, 98>>, <<115, 117, 114, 102>>, <<115, 119, 97, 110>>,
     <<116, 97, 99, 111>>, <<116, 97, 115, 107>>, <<116, 97, 120, 105>>,
     <<116, 101, 110, 116>>, <<116, 105, 101, 100>>, <<116, 105, 109, 101>>, <<116, 105, 110, 121>>,
     <<116, 111, 105, 108>>, <<116, 111, 109, 98>>, <<116, 111, 121, 115>>,
     <<116, 114, 105, 112>>, <<116, 117, 110, 97>>, <<116, 119, 105, 110>>,
     <<117, 103, 108, 121>>, <<117, 110, 100, 111>>, <<117, 110, 105, 116>>,
     <<117, 114, 103, 101>>, <<117, 115, 101, 114>>, <<118, 97, 115, 116>>,
     <<118, 101, 114, 121>>, <<118, 101, 116, 111>>, <<118, 105, 97, 108>>, <<118, 105, 98, 101>>,
     <<118, 105, 101, 119>>, <<118, 105, 115, 97>>, <<118, 111, 105, 100>>,
     <<118, 111, 119, 115>>, <<119, 97, 108, 108>>, <<119, 97, 110, 100>>,
     <<119, 97, 114, 109>>, <<119, 97, 115, 112>>, <<119, 97, 118, 101>>,
     <<119, 97, 120, 121>>, <<119, 101, 98, 115>>, <<119, 104, 97, 116>>, <<119, 104, 101, 110>>,
     <<119, 104, 105, 122>>, <<119, 111, 108, 102>>, <<119, 111, 114, 107>>,
     <<121, 97, 110, 107>>, <<121, 97, 119, 110>>, <<121, 101, 108, 108>>,
     <<121, 111, 103, 97>>, <<121, 117, 114, 116>>, <<122, 97, 112, 115>>,
     <<122, 101, 114, 111>>, <<122, 101, 115, 116>>, <<122, 105, 110, 99>>,
     <<122, 111, 110, 101>>, <<122, 111, 111, 109>>
  >>

lookup_table ==
  <<
     4, 14, 29, 37, -1, -1, 73, -1, 99, -1, -1, 128, -1, -1, -1, 177, -1, -1,
     194, 217, -1, 230, -1, -1, 248, -1, -1, 20, -1, -1, -1, -1, -1, -1, -1,
     -1, 126, 127, -1, 160, -1, -1, -1, -1, 203, 214, -1, -1, -1, -1, -1, -1,
     -1, -1, -1, -1, 53, -1, -1, -1, -1, -1, -1, -1, -1, -1, -1, -1, -1, -1,
     -1, -1, -1, -1, -1, -1, -1, 253, 1, 11, -1, -1, -1, 72, 80, 88, 98, -1,
     -1, 137, 149, 155, -1, 168, 179, 186, -1, 210, -1, 231, 234, -1, -1, -1,
     0, 16, 28, 40, 52, 69, 74, 95, 100, 107, 124, 138, 145, 159, 162, 175,
     -1, 181, 193, 211, 222, 228, 237, -1, -1, 254, -1, -1, 25, -1, -1, -1,
     -1, 86, -1, -1, -1, 130, -1, -1, -1, 176, -1, 188, 204, -1, -1, -1, 243,
     -1, -1, -1, -1, 18, -1, -1, -1, 70, -1, 87, -1, -1, 123, 141, -1, -1,
     -1, -1, -1, -1, 202, -1, -1, -1, -1, -1, -1, -1, 5, -1, 23, -1, 49, 63,
     84, 92, 101, -1, -1, -1, 144, -1, -1, -1, -1, 185, -1, -1, -1, -1, -1,
     -1, -1, -1, -1, -1, -1, 39, -1, -1, -1, -1, -1, -1, 125, -1, -1, -1, -1,
     -1, -1, -1, -1, 208, -1, -1, -1, -1, -1, -1, -1, -1, -1, -1, -1, -1, -1,
     -1, -1, -1, -1, -1, -1, -1, -1, -1, -1, -1, -1, -1, -1, -1, -1, -1, -1,
     -1, -1, 10, 30, 36, -1, -1, -1, 89, -1, 115, 121, 140, 152, -1, -1, 170,
     -1, 187, 197, 207, -1, -1, 244, -1, 245, -1, -1, -1, 33, 47, -1, 71, 78,
     93, -1, 111, -1, -1, -1, 153, 166, 174, -1, 183, -1, 213, -1, 227, 233,
     -1, 247, -1, 6, -1, 22, 46, 55, 62, 82, -1, 106, -1, -1, -1, -1, -1, -1,
     173, -1, -1, -1, -1, -1, -1, 235, -1, -1, 255, -1, 12, 35, 43, 54, 60,
     -1, 96, 105, 109, 122, 134, 142, 158, 165, -1, -1, 190, 205, 218, -1,
     -1, 241, -1, 246, -1, 2, -1, -1, -1, 51, -1, 85, -1, 103, 112, 118, 136,
     146, -1, -1, -1, -1, 184, 201, 206, 220, 226, -1, -1, -1, 251, -1, -1,
     34, 45, -1, 65, -1, 91, -1, 114, 117, 133, -1, -1, -1, -1, -1, 182, 200,
     216, -1, -1, 236, -1, -1, -1, -1, -1, -1, -1, -1, -1, -1, -1, -1, -1,
     -1, -1, -1, -1, -1, -1, -1, -1, -1, -1, -1, -1, -1, -1, -1, -1, -1, -1,
     -1, 42, -1, 59, 75, -1, -1, -1, -1, 132, -1, -1, -1, 178, -1, -1, 195,
     -1, 223, -1, -1, -1, -1, -1, 9, 15, 24, 38, 57, 61, 76, 97, 104, 113,
     120, 131, 151, 156, 167, 172, -1, 191, 196, 215, -1, 232, 239, -1, -1,
     250, 7, 13, 31, 41, 56, 58, 77, 90, -1, 110, 119, 135, 150, 157, 163,
     169, -1, 192, 199, 209, 221, 224, 240, -1, 249, 252, -1, -1, -1, -1, -1,
     -1, 83, -1, -1, -1, -1, 139, 147, -1, -1, -1, -1, -1, -1, -1, -1, -1,
     -1, -1, -1, -1, -1, -1, -1, -1, -1, -1, -1, -1, -1, -1, -1, -1, -1, -1,
     -1, -1, -1, -1, -1, -1, -1, -1, -1, -1, -1, -1, -1, 19, 27, 44, -1, 66,
     79, -1, -1, -1, -1, -1, 148, -1, -1, -1, -1, -1, 198, -1, -1, 229, -1,
     -1, -1, -1, 3, -1, 32, -1, -1, 67, -1, -1, -1, -1, -1, -1, -1, -1, 164,
     -1, -1, -1, -1, -1, -1, -1, -1, -1, -1, -1, 8, 17, 26, 48, 50, 68, 81,
     94, 102, 116, -1, 129, 143, 154, 161, 171, -1, 189, -1, 212, 219, 225,
     238, -1, -1, -1, -1, 21, -1, -1, -1, 64, -1, -1, -1, 108, -1, -1, -1,
     -1, -1, -1, 180, -1, -1, -1, -1, -1, 242, -1, -1, -1
  >>

tolower(c) == IF c >= 65 /\ c <= 90 THEN c + 32 ELSE c
toupper(c) == IF c >= 97 /\ c <= 122 THEN c - 32 ELSE c
str_to_lower(str) == [i \in 1..Len(str) |-> tolower(str[i])]

(***************************************************************************)
(* bytewords.c, minimal style (two letters per byte).                      *)
(***************************************************************************)
\* the lookup without tolower: lower-case words only
decode_word_case_sensitive(word) ==
  LET x == word[1] - 97
      y == word[2] - 97
  IN  IF x < 0 \/ x >= 26 \/ y < 0 \/ y >= 26 THEN -1
      ELSE lookup_table[y * 26 + x + 1]

\* int x = tolower(word[0]) - 'a', y = tolower(word[1]) - 'a'; -1 on failure
decode_word_optimized(word) ==
  LET x == tolower(word[1]) - 97
      y == tolower(word[2]) - 97
  IN  IF x < 0 \/ x >= 26 \/ y < 0 \/ y >= 26 THEN -1
      ELSE lookup_table[y * 26 + x + 1]

\* fixed-length partitioning: strlen / 2 words, a trailing odd character is left out
partition_string(str) ==
  [i \in 1..(Len(str) \div 2) |-> << str[2 * i - 1], str[2 * i] >>]

\* [ok, decoded]: the words' bytes without the last four, the CRC not checked
bytewords_decode_raw(encoded) ==
  LET words == partition_string(encoded)
      num_words == Len(words)
      buf == [i \in 1..num_words |-> decode_word_optimized(words[i])]
  IN  IF num_words = 0 THEN [ok |-> FALSE, decoded |-> << >>]
      ELSE IF \E i \in 1..num_words : buf[i] = -1 THEN [ok |-> FALSE, decoded |-> << >>]
      ELSE IF num_words < 4 THEN [ok |-> FALSE, decoded |-> << >>]
      ELSE IF num_words - 4 = 0 THEN [ok |-> FALSE, decoded |-> << >>]  \* safe_malloc(0)
      ELSE [ok |-> TRUE, decoded |-> SubSeq(buf, 1, num_words - 4)]

\* data followed by the four big-endian bytes of its CRC-32, two letters per byte
bytewords_encode(data) ==
  LET buf == data \o crc32_calculate(data)
  IN  IF Len(data) = 0 THEN [ok |-> FALSE, encoded |-> << >>]
      ELSE [ok |-> TRUE,
            encoded |-> Flatten([i \in 1..Len(buf) |->
                           << bytewords[buf[i] + 1][1], bytewords[buf[i] + 1][4] >>])]

(***************************************************************************)
(* The lightweight CBOR encoder of fountain_encoder.c.  A value is four    *)
(* big-endian bytes (the encoder never meets more than 32 bits here).      *)
(***************************************************************************)
CBOR_MAJOR_UNSIGNED == 0
CBOR_MAJOR_BYTES == 64
CBOR_MAJOR_ARRAY == 128

cbor_lite_get_byte_length(v) ==
  IF v[1] = 0 /\ v[2] = 0 /\ v[3] = 0 /\ v[4] < 24 THEN 0
  ELSE IF v[1] = 0 /\ v[2] = 0 /\ v[3] = 0 THEN 1
  ELSE IF v[1] = 0 /\ v[2] = 0 THEN 2
  ELSE 4

cbor_lite_encode_tag_and_value(major_type, v) ==
  LET length == cbor_lite_get_byte_length(v)
  IN  IF length = 0 THEN << major_type + v[4] >>
      ELSE IF length = 1 THEN << major_type + 24, v[4] >>
      ELSE IF length = 2 THEN << major_type + 25, v[3], v[4] >>
      ELSE << major_type + 26, v[1], v[2], v[3], v[4] >>

\* array(5), seq_num, seq_len, message_len, checksum, bytes(data)
fountain_encoder_part_to_cbor(part) ==
  cbor_lite_encode_tag_and_value(CBOR_MAJOR_ARRAY, U32Bytes(5))
    \o cbor_lite_encode_tag_and_value(CBOR_MAJOR_UNSIGNED, U32Bytes(part.seq_num))
    \o cbor_lite_encode_tag_and_value(CBOR_MAJOR_UNSIGNED, U32Bytes(part.seq_len))
    \o cbor_lite_encode_tag_and_value(CBOR_MAJOR_UNSIGNED, U32Bytes(part.message_len))
    \o cbor_lite_encode_tag_and_value(CBOR_MAJOR_UNSIGNED, part.checksum)
    \o cbor_lite_encode_tag_and_value(CBOR_MAJOR_BYTES, U32Bytes(Len(part.data)))
    \o part.data

(***************************************************************************)
(* The hand-written header parser of ur_decoder_receive_part.              *)
(***************************************************************************)
\* one of the four unsigned values at position p (1-based): [ok, val, next]
ParseHeaderUint(cbor, p) ==
  LET remaining == Len(cbor) - p + 1
      bad == [ok |-> FALSE, val |-> <<0, 0, 0, 0>>, next |-> p]
  IN  IF remaining < 1 THEN bad
      ELSE IF cbor[p] < 24 THEN [ok |-> TRUE, val |-> <<0, 0, 0, cbor[p]>>, next |-> p + 1]
      ELSE IF cbor[p] = 24
        THEN IF remaining < 2 THEN bad
             ELSE [ok |-> TRUE, val |-> <<0, 0, 0, cbor[p + 1]>>, next |-> p + 2]
      ELSE IF cbor[p] = 25
        THEN IF remaining < 3 THEN bad
             ELSE [ok |-> TRUE, val |-> <<0, 0, cbor[p + 1], cbor[p + 2]>>, next |-> p + 3]
      ELSE IF cbor[p] = 26
        THEN IF remaining < 5 THEN bad
             ELSE [ok |-> TRUE,
                   val |-> <<cbor[p + 1], cbor[p + 2], cbor[p + 3], cbor[p + 4]>>,
                   next |-> p + 5]
      ELSE bad

\* the byte-string head at position p: [ok, val, next]
ParseHeaderBytesLen(cbor, p) ==
  LET remaining == Len(cbor) - p + 1
      bad == [ok |-> FALSE, val |-> <<0, 0, 0, 0>>, next |-> p]
  IN  IF remaining < 2 THEN bad
      ELSE IF cbor[p] >= 64 /\ cbor[p] <= 87
        THEN [ok |-> TRUE, val |-> <<0, 0, 0, cbor[p] - 64>>, next |-> p + 1]
      ELSE IF cbor[p] = 88
        THEN [ok |-> TRUE, val |-> <<0, 0, 0, cbor[p + 1]>>, next |-> p + 2]
      ELSE IF cbor[p] = 89
        THEN IF remaining < 3 THEN bad
             ELSE [ok |-> TRUE, val |-> <<0, 0, cbor[p + 1], cbor[p + 2]>>, next |-> p + 3]
      ELSE IF cbor[p] = 90
        THEN IF remaining < 5 THEN bad
             ELSE [ok |-> TRUE,
                   val |-> <<cbor[p + 1], cbor[p + 2], cbor[p + 3], cbor[p + 4]>>,
                   next |-> p + 5]
      ELSE bad

\* a parsed 32-bit value as a number (the model's lengths stay below 2^31)
U32Value(v) == ((v[1] * 256 + v[2]) * 256 + v[3]) * 256 + v[4]

\* [ok, cbor_seq_num, cbor_seq_len, message_len, checksum, data]; the error is
\* UR_DECODER_ERROR_INVALID_FRAGMENT except for a zero-length fragment
\* (safe_malloc(0) is NULL: UR_DECODER_ERROR_MEMORY)
ParseFountainHeader(cbor) ==
  LET bad(e) == [ok |-> FALSE, error |-> e, cbor_seq_num |-> 0, cbor_seq_len |-> 0,
                 message_len |-> 0, checksum |-> <<0, 0, 0, 0>>, data |-> << >>]
      v1 == ParseHeaderUint(cbor, 2)
      v2 == ParseHeaderUint(cbor, v1.next)
      v3 == ParseHeaderUint(cbor, v2.next)
      v4 == ParseHeaderUint(cbor, v3.next)
      bl == ParseHeaderBytesLen(cbor, v4.next)
      fragment_len == U32Value(bl.val)
  IN  IF Len(cbor) < 5 THEN bad("INVALID_FRAGMENT")
      ELSE IF cbor[1] # 133 THEN bad("INVALID_FRAGMENT")
      ELSE IF ~v1.ok THEN bad("INVALID_FRAGMENT")
      ELSE IF ~v2.ok THEN bad("INVALID_FRAGMENT")
      ELSE IF ~v3.ok THEN bad("INVALID_FRAGMENT")
      ELSE IF ~v4.ok THEN bad("INVALID_FRAGMENT")
      ELSE IF ~bl.ok THEN bad("INVALID_FRAGMENT")
      ELSE IF Len(cbor) - bl.next + 1 < fragment_len THEN bad("INVALID_FRAGMENT")
      ELSE IF fragment_len = 0 THEN bad("MEMORY")
      ELSE [ok |-> TRUE, error |-> "OK",
            cbor_seq_num |-> U32Value(v1.val), cbor_seq_len |-> U32Value(v2.val),
            message_len |-> U32Value(v3.val), checksum |-> v4.val,
            data |-> SubSeq(cbor, bl.next, bl.next + fragment_len - 1)]

(***************************************************************************)
(* utils.c: splitting and parsing of the UR text.                          *)
(***************************************************************************)
str_has_prefix(str, prefix) ==
  Len(str) >= Len(prefix) /\ SubSeq(str, 1, Len(prefix)) = prefix

\* start and end are 1-based positions; a position past the end reads NUL
RECURSIVE StrSplitLoop(_, _, _, _, _, _)
StrSplitLoop(str, delimiter, max_parts, start, end, parts) ==
  IF end > Len(str) \/ Len(parts) >= max_parts THEN parts
  ELSE IF str[end] = delimiter \/ end + 1 > Len(str)
    THEN LET len == IF str[end] # delimiter /\ end + 1 > Len(str)
                    THEN end - start + 1 ELSE end - start
             parts2 == IF len > 0 THEN Append(parts, SubSeq(str, start, start + len - 1))
                       ELSE parts
         IN  StrSplitLoop(str, delimiter, max_parts, end + 1, end + 1, parts2)
    ELSE StrSplitLoop(str, delimiter, max_parts, start, end + 1, parts)

str_split(str, delimiter, max_parts) ==
  IF max_parts = 0 THEN << >> ELSE StrSplitLoop(str, delimiter, max_parts, 1, 1, << >>)

islower(c) == c >= 97 /\ c <= 122
isdigit(c) == c >= 48 /\ c <= 57

is_ur_type(type) ==
  /\ Len(type) # 0
  /\ type[1] # 45
  /\ type[Len(type)] # 45
  /\ \A i \in 1..Len(type) : islower(type[i]) \/ isdigit(type[i]) \/ type[i] = 45

UR_PREFIX == <<117, 114, 58>>
MAX_URI_PARTS == 10

\* [ok, type, components]
parse_ur_string(ur_str) ==
  LET lowered == str_to_lower(ur_str)
      path == SubSeq(lowered, 4, Len(lowered))
      parts == str_split(path, 47, MAX_URI_PARTS)
      bad == [ok |-> FALSE, type |-> << >>, components |-> << >>]
  IN  IF ~str_has_prefix(lowered, UR_PREFIX) THEN bad
      ELSE IF Len(path) = 0 THEN bad
      ELSE IF Len(parts) < 2 THEN bad
      ELSE IF ~is_ur_type(parts[1]) THEN bad
      ELSE [ok |-> TRUE, type |-> parts[1], components |-> Tail(parts)]

\* strtoul(str, &endptr, 10) on a string of decimal digits; -1 stands for
\* *endptr != '\0' (a character that is not a digit stops the conversion)
RECURSIVE strtoul(_)
strtoul(str) ==
  IF Len(str) = 0 THEN 0
  ELSE IF ~isdigit(str[Len(str)]) THEN -1
  ELSE LET hi == strtoul(SubSeq(str, 1, Len(str) - 1))
       IN  IF hi = -1 THEN -1 ELSE hi * 10 + (str[Len(str)] - 48)

\* [ok, seq_num, seq_len]
parse_sequence_component(seq_str) ==
  LET parts == str_split(seq_str, 45, 2)
      num == strtoul(parts[1])
      len == strtoul(parts[2])
      bad == [ok |-> FALSE, seq_num |-> 0, seq_len |-> 0]
  IN  IF Len(parts) # 2 THEN bad
      ELSE IF num = -1 \/ num = 0 THEN bad
      ELSE IF len = -1 \/ len = 0 THEN bad
      ELSE [ok |-> TRUE, seq_num |-> num, seq_len |-> len]

(***************************************************************************)
(* fountain_utils.c / fountain_decoder.c: index lists.  A part_indexes_t   *)
(* is the sequence of its indexes in stored order.                         *)
(***************************************************************************)
part_indexes_contains(indexes, index) == \E i \in 1..Len(indexes) : indexes[i] = index

part_indexes_add(indexes, index) ==
  IF part_indexes_contains(indexes, index) THEN indexes ELSE Append(indexes, index)

\* a subset test that lets equal lists through
part_indexes_is_subset(a, b) ==
  \A i \in 1..Len(a) : part_indexes_contains(b, a[i])

part_indexes_is_strict_subset(a, b) ==
  /\ Len(a) < Len(b)
  /\ \A i \in 1..Len(a) : part_indexes_contains(b, a[i])

\* the elements of a that are not in b, in a's order
NotIn(a, b) == SelectSeq(a, LAMBDA x : ~part_indexes_contains(b, x))

\* qsort with compare_size_t
part_indexes_difference(a, b) == SortSeq(NotIn(a, b), LAMBDA x, y : x < y)

\* equality of index lists position by position
part_indexes_equal_in_order(a, b) == a = b

\* inclusion of the first index list in the second
part_indexes_included(a, b) == \A i \in 1..Len(a) : part_indexes_contains(b, a[i])

part_indexes_equal(a, b) ==
  /\ Len(a) = Len(b)
  /\ \A i \in 1..Len(a) : part_indexes_contains(b, a[i])

part_indexes_have_intersection(a, b) == \E i \in 1..Len(a) : part_indexes_contains(b, a[i])

part_indexes_symmetric_difference(a, b) == NotIn(a, b) \o NotIn(b, a)

\* the first message_len bytes of the fragments laid end to end, in a
\* zero-filled buffer of message_len bytes
join_fragments(fragments, message_len) ==
  LET temp_buffer == Flatten(fragments)
      copy_len == Min(Len(temp_buffer), message_len)
  IN  SubSeq(temp_buffer, 1, copy_len) \o Zeros(message_len - copy_len)

(***************************************************************************)
(* choose_fragments for seq_num > seq_len: the index list drawn by the     *)
(* degree sampler and the shuffle from the generator seeded with SHA-256   *)
(* of (seq_num, checksum).  The values are those the routine computes for  *)
(* the checksums and lengths of this model: SampledRows[checksum][seq_len] *)
(* [seq_num - seq_len].                                                    *)
(***************************************************************************)
SampledRows ==
  [c \in {<<6, 235, 44, 155>>, <<6, 235, 44, 154>>} |->
    IF c = <<6, 235, 44, 155>>
    THEN <<
      <<<<0>>, <<0>>, <<0>>, <<0>>, <<0>>, <<0>>, <<0>>, <<0>>, <<0>>>>,
      <<<<0, 1>>, <<1, 0>>, <<0, 1>>, <<0, 1>>, <<0, 1>>, <<1>>, <<1>>, <<1>>>>,
      <<<<2, 0, 1>>, <<0, 1>>, <<1, 0>>, <<1>>, <<2>>, <<1, 2>>, <<1, 0>>>>,
      <<<<0, 1, 2>>, <<1, 0, 2>>, <<1>>, <<3, 1>>, <<2>>, <<2, 0>>>>
    >>
    ELSE <<
      <<<<0>>, <<0>>, <<0>>, <<0>>, <<0>>, <<0>>, <<0>>, <<0>>, <<0>>>>,
      <<<<0, 1>>, <<0, 1>>, <<1>>, <<1>>, <<0>>, <<0>>, <<1>>, <<1, 0>>>>,
      <<<<1, 2>>, <<2>>, <<1>>, <<0>>, <<0>>, <<1, 0>>, <<2, 1>>>>,
      <<<<3>>, <<2>>, <<0>>, <<0>>, <<2, 0>>, <<3, 2, 0>>>>
    >> ]

\* the same for sequence numbers next to 2^31 and 2^32, checksum 0x06eb2c9b
SampledRowsNearWrap ==
  {[seq_len |-> 2, seq_num |-> 2147483645, indexes |-> <<0>>],
   [seq_len |-> 2, seq_num |-> 2147483646, indexes |-> <<0>>],
   [seq_len |-> 2, seq_num |-> 2147483647, indexes |-> <<1>>],
   [seq_len |-> 2, seq_num |-> -2147483647 - 1, indexes |-> <<1>>],
   [seq_len |-> 2, seq_num |-> -2147483647, indexes |-> <<0>>],
   [seq_len |-> 2, seq_num |-> -2147483646, indexes |-> <<1>>],
   [seq_len |-> 2, seq_num |-> -2147483645, indexes |-> <<0>>],
   [seq_len |-> 2, seq_num |-> -2147483644, indexes |-> <<0>>],
   [seq_len |-> 2, seq_num |-> -2147483643, indexes |-> <<1>>],
   [seq_len |-> 2, seq_num |-> -2147483642, indexes |-> <<1>>],
   [seq_len |-> 2, seq_num |-> -2147483641, indexes |-> <<0>>],
   [seq_len |-> 2, seq_num |-> -6, indexes |-> <<1>>],
   [seq_len |-> 2, seq_num |-> -5, indexes |-> <<0>>],
   [seq_len |-> 2, seq_num |-> -4, indexes |-> <<1, 0>>],
   [seq_len |-> 2, seq_num |-> -3, indexes |-> <<0>>],
   [seq_len |-> 2, seq_num |-> -2, indexes |-> <<0, 1>>],
   [seq_len |-> 2, seq_num |-> -1, indexes |-> <<1>>],
   [seq_len |-> 3, seq_num |-> 2147483645, indexes |-> <<0, 1>>],
   [seq_len |-> 3, seq_num |-> 2147483646, indexes |-> <<0, 2>>],
   [seq_len |-> 3, seq_num |-> 2147483647, indexes |-> <<2>>],
   [seq_len |-> 3, seq_num |-> -2147483647 - 1, indexes |-> <<2, 1>>],
   [seq_len |-> 3, seq_num |-> -2147483647, indexes |-> <<1, 0>>],
   [seq_len |-> 3, seq_num |-> -2147483646, indexes |-> <<1>>],
   [seq_len |-> 3, seq_num |-> -2147483645, indexes |-> <<0>>],
   [seq_len |-> 3, seq_num |-> -2147483644, indexes |-> <<0>>],
   [seq_len |-> 3, seq_num |-> -2147483643, indexes |-> <<1>>],
   [seq_len |-> 3, seq_num |-> -2147483642, indexes |-> <<2>>],
   [seq_len |-> 3, seq_num |-> -2147483641, indexes |-> <<1>>],
   [seq_len |-> 3, seq_num |-> -6, indexes |-> <<1, 0>>],
   [seq_len |-> 3, seq_num |-> -5, indexes |-> <<0>>],
   [seq_len |-> 3, seq_num |-> -4, indexes |-> <<1, 0, 2>>],
   [seq_len |-> 3, seq_num |-> -3, indexes |-> <<0>>],
   [seq_len |-> 3, seq_num |-> -2, indexes |-> <<0, 1>>],
   [seq_len |-> 3, seq_num |-> -1, indexes |-> <<2>>]}

\* the same for the 18-fragment message of CascadeSpec (checksum 0x2b416d97):
\* the first sequence number that mixes fragment 17 with each other fragment
SampledRowsLong ==
  << [seq_num |-> 56, indexes |-> <<17, 12>>],
   [seq_num |-> 110, indexes |-> <<17, 0>>],
   [seq_num |-> 178, indexes |-> <<14, 17>>],
   [seq_num |-> 226, indexes |-> <<17, 8>>],
   [seq_num |-> 243, indexes |-> <<17, 1>>],
   [seq_num |-> 253, indexes |-> <<17, 11>>],
   [seq_num |-> 254, indexes |-> <<17, 7>>],
   [seq_num |-> 291, indexes |-> <<9, 17>>],
   [seq_num |-> 299, indexes |-> <<6, 17>>],
   [seq_num |-> 378, indexes |-> <<5, 17>>],
   [seq_num |-> 609, indexes |-> <<17, 15>>],
   [seq_num |-> 623, indexes |-> <<2, 17>>],
   [seq_num |-> 763, indexes |-> <<16, 17>>],
   [seq_num |-> 1086, indexes |-> <<17, 13>>],
   [seq_num |-> 1344, indexes |-> <<17, 4>>],
   [seq_num |-> 1525, indexes |-> <<17, 3>>],
   [seq_num |-> 1827, indexes |-> <<10, 17>>] >>

\* [ok, indexes]; seq_num - 1 is computed in 32 bits, so seq_num 0 gives 0xffffffff
choose_fragments(seq_num, seq_len, checksum) ==
  IF seq_len = 0 THEN [ok |-> FALSE, indexes |-> << >>]
  ELSE IF ~Less32(seq_len, seq_num) THEN [ok |-> TRUE, indexes |-> << seq_num - 1 >>]
  ELSE IF \E row \in SampledRowsNearWrap : row.seq_len = seq_len /\ row.seq_num = seq_num
  THEN [ok |-> TRUE,
        indexes |-> (CHOOSE row \in SampledRowsNearWrap :
                       row.seq_len = seq_len /\ row.seq_num = seq_num).indexes]
  ELSE IF seq_len = 18
  THEN [ok |-> \E i \in 1..Len(SampledRowsLong) : SampledRowsLong[i].seq_num = seq_num,
        indexes |-> SampledRowsLong[CHOOSE i \in 1..Len(SampledRowsLong) :
                                      SampledRowsLong[i].seq_num = seq_num].indexes]
  ELSE [ok |-> TRUE, indexes |-> SampledRows[checksum][seq_len][seq_num - seq_len]]

(***************************************************************************)
(* fountain_encoder.c                                                      *)
(***************************************************************************)
CeilDiv(a, b) == (a + b - 1) \div b

\* the loop over fragment_count; fragment_len is the last value computed
RECURSIVE NominalLoop(_, _, _, _, _)
NominalLoop(message_len, max_fragment_len, max_fragment_count, fragment_count, fragment_len) ==
  IF fragment_count > max_fragment_count THEN fragment_len
  ELSE LET fl == CeilDiv(message_len, fragment_count)
       IN  IF fl <= max_fragment_len THEN fl
           ELSE NominalLoop(message_len, max_fragment_len, max_fragment_count,
                            fragment_count + 1, fl)

fountain_encoder_find_nominal_fragment_length(message_len, min_fragment_len, max_fragment_len) ==
  IF message_len = 0 \/ min_fragment_len = 0 \/ max_fragment_len < min_fragment_len THEN 0
  ELSE NominalLoop(message_len, max_fragment_len, message_len \div min_fragment_len, 1, 0)

\* fragments whose padding bytes are 0xff
partition_message_ones_padded(message, fragment_len) ==
  [k \in 1..CeilDiv(Len(message), fragment_len) |->
     [j \in 1..fragment_len |->
        IF (k - 1) * fragment_len + j <= Len(message)
        THEN message[(k - 1) * fragment_len + j] ELSE 255]]

\* fragments of fragment_len bytes each, the last one zero-padded
fountain_encoder_partition_message(message, fragment_len) ==
  [k \in 1..CeilDiv(Len(message), fragment_len) |->
     [j \in 1..fragment_len |->
        IF (k - 1) * fragment_len + j <= Len(message)
        THEN message[(k - 1) * fragment_len + j] ELSE 0]]

\* [ok, message_len, checksum, fragment_len, fragments, seq_num]; ok = FALSE is NULL
fountain_encoder_new(message, max_fragment_len, first_seq_num, min_fragment_len) ==
  LET fragment_len == fountain_encoder_find_nominal_fragment_length(
                        Len(message), min_fragment_len, max_fragment_len)
      null == [ok |-> FALSE, message_len |-> 0, checksum |-> <<0, 0, 0, 0>>,
               fragment_len |-> 0, fragments |-> << >>, seq_num |-> 0]
  IN  IF Len(message) = 0 THEN null
      ELSE IF fragment_len = 0 THEN null
      ELSE [ok |-> TRUE, message_len |-> Len(message),
            checksum |-> crc32_calculate(message), fragment_len |-> fragment_len,
            fragments |-> fountain_encoder_partition_message(message, fragment_len),
            seq_num |-> first_seq_num]

RECURSIVE MixLoop(_, _, _, _)
MixLoop(encoder, indexes, i, result) ==
  IF i > Len(indexes) THEN result
  ELSE MixLoop(encoder, indexes, i + 1, XorBytes(result, encoder.fragments[indexes[i] + 1]))

\* [ok, data]
mix_fragments(encoder, indexes) ==
  IF \E i \in 1..Len(indexes) : ~Less32(indexes[i], Len(encoder.fragments))
  THEN [ok |-> FALSE, data |-> << >>]
  ELSE [ok |-> TRUE, data |-> MixLoop(encoder, indexes, 1, Zeros(encoder.fragment_len))]

\* [ok, encoder, part]: the sequence number advances before the part is built
fountain_encoder_next_part(encoder) ==
  LET seq_num == Inc32(encoder.seq_num)
      chosen == choose_fragments(seq_num, Len(encoder.fragments), encoder.checksum)
      mixed == mix_fragments(encoder, chosen.indexes)
      enc2 == [encoder EXCEPT !.seq_num = seq_num]
      none == [seq_num |-> 0, seq_len |-> 0, message_len |-> 0,
               checksum |-> <<0, 0, 0, 0>>, data |-> << >>]
  IN  IF ~chosen.ok \/ ~mixed.ok THEN [ok |-> FALSE, encoder |-> enc2, part |-> none]
      ELSE [ok |-> TRUE, encoder |-> enc2,
            part |-> [seq_num |-> seq_num, seq_len |-> Len(encoder.fragments),
                      message_len |-> encoder.message_len,
                      checksum |-> encoder.checksum, data |-> mixed.data]]

(***************************************************************************)
(* ur_encoder.c                                                            *)
(***************************************************************************)
\* snprintf("%u")
RECURSIVE Decimal(_)
Decimal(n) ==
  IF n < 0
  THEN Decimal(214748364 + (((n + 2147483647) + 1) \div 10)
                 + ((8 + (((n + 2147483647) + 1) % 10)) \div 10))
         \o << 48 + ((8 + (((n + 2147483647) + 1) % 10)) % 10) >>
  ELSE IF n < 10 THEN << 48 + n >> ELSE Decimal(n \div 10) \o << 48 + (n % 10) >>

RECURSIVE JoinPath(_)
JoinPath(path_components) ==
  IF Len(path_components) = 1 THEN path_components[1]
  ELSE path_components[1] \o <<47>> \o JoinPath(Tail(path_components))

\* scheme ':' components joined with '/', every character through toupper
encode_uri(scheme, path_components) ==
  LET text == scheme \o <<58>> \o JoinPath(path_components)
  IN  [i \in 1..Len(text) |-> toupper(text[i])]

encode_ur(path_components) == encode_uri(<<117, 114>>, path_components)

\* [ok, ur_string]
\* [ok, ur_string] of the path components once the body is in bytewords
EncodeBody(components, bw) ==
  IF ~bw.ok THEN [ok |-> FALSE, ur_string |-> << >>]
  ELSE [ok |-> TRUE, ur_string |-> encode_ur(Append(components, bw.encoded))]

\* a single-part text that carries the sequence component 1-1
ur_encoder_encode_single_sequenced(type, cbor_data) ==
  IF Len(cbor_data) = 0 THEN [ok |-> FALSE, ur_string |-> << >>]
  ELSE EncodeBody(<< type, <<49, 45, 49>> >>, bytewords_encode(cbor_data))

ur_encoder_encode_single(type, cbor_data) ==
  IF Len(cbor_data) = 0 THEN [ok |-> FALSE, ur_string |-> << >>]
  ELSE EncodeBody(<< type >>, bytewords_encode(cbor_data))

\* [ok, ur_string]
encode_part(type, part) ==
  EncodeBody(<< type, Decimal(part.seq_num) \o <<45>> \o Decimal(part.seq_len) >>,
             bytewords_encode(fountain_encoder_part_to_cbor(part)))

\* a constructor that returns an encoder whatever its arguments
ur_encoder_new_unchecked(type, cbor_data, max_fragment_len, first_seq_num, min_fragment_len) ==
  [ok |-> TRUE, type |-> type, cbor_data |-> cbor_data,
   fountain_encoder |->
     fountain_encoder_new(cbor_data, max_fragment_len, first_seq_num, min_fragment_len)]

\* [ok, type, cbor_data, fountain_encoder]
ur_encoder_new(type, cbor_data, max_fragment_len, first_seq_num, min_fragment_len) ==
  LET fe == fountain_encoder_new(cbor_data, max_fragment_len, first_seq_num, min_fragment_len)
  IN  [ok |-> Len(cbor_data) # 0 /\ fe.ok, type |-> type, cbor_data |-> cbor_data,
       fountain_encoder |-> fe]

ur_encoder_is_single_part(encoder) == Len(encoder.fountain_encoder.fragments) = 1

ur_encoder_is_complete(encoder) ==
  ~Less32(encoder.fountain_encoder.seq_num, Len(encoder.fountain_encoder.fragments))

\* [ok, encoder, ur_string]
\* the encoder and the text returned once the text is encoded
NextPartResult(encoder, encoded) ==
  [ok |-> encoded.ok, encoder |-> encoder, ur_string |-> encoded.ur_string]

\* the multi-part branch: np is what fountain_encoder_next_part returned
NextFountainPart(encoder, np) ==
  IF ~np.ok
  THEN [ok |-> FALSE, encoder |-> [encoder EXCEPT !.fountain_encoder = np.encoder],
        ur_string |-> << >>]
  ELSE NextPartResult([encoder EXCEPT !.fountain_encoder = np.encoder],
                      encode_part(encoder.type, np.part))

ur_encoder_next_part(encoder) ==
  IF ur_encoder_is_single_part(encoder)
  THEN NextPartResult(encoder, ur_encoder_encode_single(encoder.type, encoder.cbor_data))
  ELSE NextFountainPart(encoder, fountain_encoder_next_part(encoder.fountain_encoder))

(***************************************************************************)
(* fountain_decoder.c: data structures.                                    *)
(*   decoder part     [indexes, data]                                      *)
(*   hash entry       [key, value, key_hash]                               *)
(*   mixed_parts_hash [buckets, count, capacity]; buckets[b + 1] is the    *)
(*                    chain of bucket b from its head; capacity 0 is NULL  *)
(*   result           << >> for NULL, else <<[data, is_success, is_error]>>*)
(* size_t is 32 bits wide on the target, so the cached key_hash and the    *)
(* hash kept for duplicate detection are the same 32-bit value.            *)
(***************************************************************************)
QUEUE_INITIAL_CAPACITY == 16
HASH_MIN_CAPACITY == 64
HASH_CAPACITY_MULTIPLIER == 1
MAX_MIXED_PARTS == 256
MAX_DUPLICATE_TRACKING == 512
CROSS_REDUCTION_MAX_ITERATIONS == 7

NullHash == [buckets |-> << >>, count |-> 0, capacity |-> 0]

mixed_hash_init(capacity) ==
  [buckets |-> [b \in 1..capacity |-> << >>], count |-> 0, capacity |-> capacity]

hash_set_contains(set, hash) == \E i \in 1..Len(set.hashes) : set.hashes[i] = hash

\* the set after the call (unchanged when the hash is present or the limit is reached)
hash_set_add(set, hash) ==
  IF hash_set_contains(set, hash) THEN set
  ELSE IF Len(set.hashes) >= MAX_DUPLICATE_TRACKING THEN set
  ELSE [hashes |-> Append(set.hashes, hash),
        capacity |-> IF Len(set.hashes) >= set.capacity
                     THEN Min(set.capacity * 2, MAX_DUPLICATE_TRACKING)
                     ELSE set.capacity]

\* an entry of the chain matches when the cached hash and the index set agree
ChainHasKey(chain, key, key_hash) ==
  \E i \in 1..Len(chain) : chain[i].key_hash = key_hash /\ part_indexes_equal(chain[i].key, key)

mixed_hash_contains(hash, key) ==
  /\ hash.capacity # 0
  /\ ChainHasKey(hash.buckets[BucketOf(hash_indexes(key), hash.capacity) + 1],
                 key, hash_indexes(key))

\* [ok, hash]: a new entry goes to the head of its bucket
mixed_hash_put(hash, key, value) ==
  LET key_hash == hash_indexes(key)
      b == BucketOf(key_hash, hash.capacity) + 1
  IN  IF hash.capacity = 0 THEN [ok |-> FALSE, hash |-> hash]
      ELSE IF ChainHasKey(hash.buckets[b], key, key_hash) THEN [ok |-> FALSE, hash |-> hash]
      ELSE [ok |-> TRUE,
            hash |-> [hash EXCEPT
                        !.buckets[b] = << [key |-> key, value |-> value, key_hash |-> key_hash] >>
                                         \o hash.buckets[b],
                        !.count = hash.count + 1]]

\* the decoder after the call; a full queue drops the part
queue_enqueue(decoder, part) ==
  IF Len(decoder.queue) >= QUEUE_INITIAL_CAPACITY THEN decoder
  ELSE [decoder EXCEPT !.queue = Append(decoder.queue, part)]

fountain_decoder_new ==
  [received_part_indexes |-> << >>, last_part_indexes |-> << >>,
   processed_parts_count |-> 0, result |-> << >>,
   expected_part_indexes |-> << >>, expected_fragment_len |-> 0,
   expected_message_len |-> 0, expected_checksum |-> <<0, 0, 0, 0>>,
   simple_parts |-> << >>, mixed_parts_hash |-> NullHash,
   received_fragments_hashes |-> [hashes |-> << >>, capacity |-> 0],
   queue |-> << >>, last_fragment_seq_num |-> 0, has_received_fragment |-> FALSE]

\* [ok, part]: the indexes of the following sequence number
create_decoder_part_of_next_seq_num(encoder_part) ==
  LET chosen == choose_fragments(encoder_part.seq_num + 1, encoder_part.seq_len,
                                 encoder_part.checksum)
  IN  [ok |-> chosen.ok, part |-> [indexes |-> chosen.indexes, data |-> encoder_part.data]]

\* [ok, part]
create_decoder_part_from_encoder_part(encoder_part) ==
  LET chosen == choose_fragments(encoder_part.seq_num, encoder_part.seq_len,
                                 encoder_part.checksum)
  IN  [ok |-> chosen.ok, part |-> [indexes |-> chosen.indexes, data |-> encoder_part.data]]

is_simple_part(part) == Len(part.indexes) = 1
get_part_index(part) == IF Len(part.indexes) = 0 THEN 0 ELSE part.indexes[1]

\* a store that keeps only the newest fragment
add_simple_part_forgetful(decoder, part) ==
  [decoder EXCEPT !.simple_parts = << [key |-> get_part_index(part), value |-> part] >>]

\* simple_parts is the list of [key, value] in insertion order
add_simple_part(decoder, part) ==
  IF \E i \in 1..Len(decoder.simple_parts) : decoder.simple_parts[i].key = get_part_index(part)
  THEN decoder
  ELSE [decoder EXCEPT !.simple_parts =
          Append(decoder.simple_parts, [key |-> get_part_index(part), value |-> part])]

\* the indexes are reduced, the data is left as it was
reduce_part_by_part_indexes_only(a, b) ==
  IF ~part_indexes_is_strict_subset(b.indexes, a.indexes) THEN a
  ELSE [indexes |-> part_indexes_difference(a.indexes, b.indexes), data |-> a.data]

\* a when b is not a strict subset of a, else a without b's indexes (sorted)
\* and a's data XOR b's
reduce_part_by_part(a, b) ==
  IF ~part_indexes_is_strict_subset(b.indexes, a.indexes) THEN a
  ELSE [indexes |-> part_indexes_difference(a.indexes, b.indexes),
        data |-> XorBytes(a.data, b.data)]

add_mixed_part(decoder, part) ==
  IF is_simple_part(part) \/ decoder.mixed_parts_hash.capacity = 0
  THEN [ok |-> FALSE, decoder |-> decoder]
  ELSE IF decoder.mixed_parts_hash.count >= MAX_MIXED_PARTS
  THEN [ok |-> FALSE, decoder |-> decoder]
  ELSE LET put == mixed_hash_put(decoder.mixed_parts_hash, part.indexes, part)
       IN  [ok |-> put.ok, decoder |-> [decoder EXCEPT !.mixed_parts_hash = put.hash]]

RECURSIVE EnqueueAll(_, _, _)
EnqueueAll(decoder, parts, i) ==
  IF i > Len(parts) THEN decoder
  ELSE EnqueueAll(queue_enqueue(decoder, parts[i]), parts, i + 1)

\* the bytes of a XOR those of b as far as both reach
XorPrefix(a, b) == [j \in 1..Len(a) |-> IF j <= Len(b) THEN BitXor(a[j], b[j]) ELSE a[j]]

(***************************************************************************)
(* reduce_mixed_by.  An entry is followed through the three passes by a    *)
(* tag <<bucket, position>> taken in the first pass (its address) and a    *)
(* mark: "remove" for to_remove, "rehash" for to_rehash.  The first pass   *)
(* rewrites key and value in place and leaves key_hash as it was.          *)
(***************************************************************************)
ReduceEntryBy(entry, part, b, p, capacity) ==
  LET new_indexes == part_indexes_difference(entry.key, part.indexes)
  IN  IF ~part_indexes_is_strict_subset(part.indexes, entry.key)
      THEN [key |-> entry.key, value |-> entry.value, key_hash |-> entry.key_hash,
            tag |-> <<b, p>>, mark |-> "none"]
      ELSE [key |-> new_indexes,
            value |-> [indexes |-> new_indexes,
                       data |-> XorPrefix(entry.value.data, part.data)],
            key_hash |-> entry.key_hash,
            tag |-> <<b, p>>,
            mark |-> IF Len(new_indexes) = 1 THEN "remove"
                     ELSE IF BucketOf(hash_indexes(new_indexes), capacity) # b THEN "rehash"
                     ELSE "none"]

FirstPass(hash, part) ==
  [b \in 1..hash.capacity |->
     [p \in 1..Len(hash.buckets[b]) |->
        ReduceEntryBy(hash.buckets[b][p], part, b - 1, p, hash.capacity)]]

RemoveTag(chain, tag) == SelectSeq(chain, LAMBDA e : e.tag # tag)

\* second pass: the entry is looked for in the bucket of its new key
RECURSIVE SecondPass(_, _, _)
SecondPass(hash, to_remove, i) ==
  IF i > Len(to_remove) THEN hash
  ELSE LET entry == to_remove[i]
           bucket == BucketOf(hash_indexes(entry.key), hash.capacity)
       IN  IF bucket = entry.tag[1]
           THEN SecondPass([hash EXCEPT !.buckets[bucket + 1] = RemoveTag(@, entry.tag),
                                        !.count = @ - 1], to_remove, i + 1)
           ELSE SecondPass(hash, to_remove, i + 1)

\* third pass: unlink from the old bucket, insert at the head of the new one
RECURSIVE ThirdPass(_, _, _)
ThirdPass(hash, to_rehash, i) ==
  IF i > Len(to_rehash) THEN hash
  ELSE LET entry == to_rehash[i]
           old_bucket == entry.tag[1]
           new_bucket == BucketOf(hash_indexes(entry.key), hash.capacity)
           unlinked == [hash EXCEPT !.buckets[old_bucket + 1] = RemoveTag(@, entry.tag)]
       IN  ThirdPass([unlinked EXCEPT !.buckets[new_bucket + 1] = <<entry>> \o @],
                     to_rehash, i + 1)

Untag(chain) ==
  [p \in 1..Len(chain) |->
     [key |-> chain[p].key, value |-> chain[p].value, key_hash |-> chain[p].key_hash]]

reduce_mixed_by(decoder, part) ==
  LET hash == decoder.mixed_parts_hash
      tagged == FirstPass(hash, part)
      entries == Flatten(tagged)
      to_remove == SelectSeq(entries, LAMBDA e : e.mark = "remove")
      to_rehash == SelectSeq(entries, LAMBDA e : e.mark = "rehash")
      to_queue == SelectSeq(to_remove, LAMBDA e :
                    ~part_indexes_contains(decoder.received_part_indexes,
                                           get_part_index(e.value)))
      queued == EnqueueAll(decoder, [i \in 1..Len(to_queue) |-> to_queue[i].value], 1)
      passed == ThirdPass(SecondPass([hash EXCEPT !.buckets = tagged], to_remove, 1),
                          to_rehash, 1)
  IN  IF hash.capacity = 0 \/ hash.count = 0 THEN decoder
      ELSE [queued EXCEPT !.mixed_parts_hash =
              [passed EXCEPT !.buckets = [b \in 1..hash.capacity |-> Untag(passed.buckets[b])]]]

(***************************************************************************)
(* process_simple_part: record the fragment; when every expected index is  *)
(* known, join the fragments in index order and compare the CRC-32.        *)
(***************************************************************************)
\* a reassembly that joins the fragments in arrival order and reports
\* success without comparing the CRC-32
process_simple_part_unchecked(decoder, part) ==
  LET fragment_index == get_part_index(part)
      d1 == add_simple_part(decoder, part)
      d2 == [d1 EXCEPT !.received_part_indexes = part_indexes_add(@, fragment_index)]
      message == join_fragments([i \in 1..Len(d2.simple_parts) |->
                                   d2.simple_parts[i].value.data],
                                d2.expected_message_len)
  IN  IF ~is_simple_part(part) THEN decoder
      ELSE IF part_indexes_contains(decoder.received_part_indexes, fragment_index) THEN decoder
      ELSE IF Len(d2.expected_part_indexes) = 0 THEN d2
      ELSE IF ~part_indexes_equal(d2.received_part_indexes, d2.expected_part_indexes[1]) THEN d2
      ELSE [d2 EXCEPT !.result = << [data |-> message, is_success |-> TRUE,
                                     is_error |-> FALSE] >>]

process_simple_part(decoder, part) ==
  LET fragment_index == get_part_index(part)
      d1 == add_simple_part(decoder, part)
      d2 == [d1 EXCEPT !.received_part_indexes = part_indexes_add(@, fragment_index)]
      sorted_fragments == SortSeq(d2.simple_parts, LAMBDA x, y : x.key < y.key)
      message == join_fragments([i \in 1..Len(sorted_fragments) |->
                                   sorted_fragments[i].value.data],
                                d2.expected_message_len)
  IN  IF ~is_simple_part(part) THEN decoder
      ELSE IF part_indexes_contains(decoder.received_part_indexes, fragment_index) THEN decoder
      ELSE IF Len(d2.expected_part_indexes) = 0 THEN d2
      ELSE IF ~part_indexes_equal(d2.received_part_indexes, d2.expected_part_indexes[1]) THEN d2
      ELSE IF d2.expected_message_len = 0 THEN d2
      ELSE IF crc32_calculate(message) = d2.expected_checksum
      THEN [d2 EXCEPT !.result = << [data |-> message, is_success |-> TRUE,
                                     is_error |-> FALSE] >>]
      ELSE [d2 EXCEPT !.result = << [data |-> << >>, is_success |-> FALSE,
                                     is_error |-> TRUE] >>]

RECURSIVE ReduceByAll(_, _, _)
ReduceByAll(reduced_part, parts, i) ==
  IF i > Len(parts) THEN reduced_part
  ELSE ReduceByAll(reduce_part_by_part(reduced_part, parts[i]), parts, i + 1)

\* every entry of the table, bucket by bucket, each chain from its head
HashEntries(hash) == Flatten(hash.buckets)

process_mixed_part(decoder, part) ==
  LET by_simple == ReduceByAll(part, [i \in 1..Len(decoder.simple_parts) |->
                                        decoder.simple_parts[i].value], 1)
      entries == HashEntries(decoder.mixed_parts_hash)
      reduced_part == ReduceByAll(by_simple, [i \in 1..Len(entries) |-> entries[i].value], 1)
  IN  IF is_simple_part(part) \/ decoder.mixed_parts_hash.capacity = 0 THEN decoder
      ELSE IF mixed_hash_contains(decoder.mixed_parts_hash, part.indexes) THEN decoder
      ELSE IF is_simple_part(reduced_part) THEN queue_enqueue(decoder, reduced_part)
      ELSE add_mixed_part(decoder, reduced_part).decoder

(***************************************************************************)
(* gaussian_reduce_with_new_part.  The walk of bucket b (1-based here) is  *)
(* at chain position inserted + kept + 1: `inserted` entries were put at   *)
(* the head of this bucket during the walk, `kept` entries were passed and *)
(* left in place (prev is NULL exactly when kept = 0).  Unlinking with     *)
(* prev = NULL stores next in the bucket head.                             *)
(***************************************************************************)
RECURSIVE GaussWalk(_, _, _, _, _)
GaussWalk(decoder, pivot, b, inserted, kept) ==
  LET hash == decoder.mixed_parts_hash
      chain == hash.buckets[b]
      pos == inserted + kept + 1
      entry == chain[pos]
      reduced == reduce_part_by_part(entry.value, pivot)
      unlinked == IF kept > 0
                  THEN SubSeq(chain, 1, pos - 1) \o SubSeq(chain, pos + 1, Len(chain))
                  ELSE SubSeq(chain, pos + 1, Len(chain))
      d1 == [decoder EXCEPT !.mixed_parts_hash.buckets[b] = unlinked,
                            !.mixed_parts_hash.count = @ - 1]
      ins1 == IF kept > 0 THEN inserted ELSE 0
      added == add_mixed_part(d1, reduced)
      at_head == added.ok /\ BucketOf(hash_indexes(reduced.indexes), hash.capacity) + 1 = b
  IN  IF b > hash.capacity THEN decoder
      ELSE IF pos > Len(chain) THEN GaussWalk(decoder, pivot, b + 1, 0, 0)
      ELSE IF part_indexes_equal(entry.key, pivot.indexes)
        THEN GaussWalk(decoder, pivot, b, inserted, kept + 1)
      ELSE IF part_indexes_is_strict_subset(pivot.indexes, entry.key)
        THEN IF is_simple_part(reduced)
             THEN GaussWalk(IF part_indexes_contains(d1.received_part_indexes,
                                                     get_part_index(reduced))
                            THEN d1 ELSE queue_enqueue(d1, reduced),
                            pivot, b, ins1, kept)
             ELSE GaussWalk(added.decoder, pivot, b,
                            IF at_head THEN ins1 + 1 ELSE ins1, kept)
      ELSE GaussWalk(decoder, pivot, b, inserted, kept + 1)

gaussian_reduce_with_new_part(decoder, pivot) ==
  IF is_simple_part(pivot) \/ decoder.mixed_parts_hash.capacity = 0 THEN decoder
  ELSE GaussWalk(decoder, pivot, 1, 0, 0)

\* [ok, part]
create_symmetric_diff(a, b) ==
  LET indexes == part_indexes_symmetric_difference(a.indexes, b.indexes)
  IN  IF Len(a.data) # Len(b.data) \/ Len(indexes) = 0
      THEN [ok |-> FALSE, part |-> [indexes |-> << >>, data |-> << >>]]
      ELSE [ok |-> TRUE, part |-> [indexes |-> indexes, data |-> XorBytes(a.data, b.data)]]

(***************************************************************************)
(* reduce_mixed_against_mixed.  entries holds the first `count` entries of *)
(* the table; for each i the first j > i whose combination with i is       *)
(* simpler is tried, and the scan stops at the first one that progresses.  *)
(***************************************************************************)
IsCandidate(entries, i, j) ==
  LET diff == create_symmetric_diff(entries[i].value, entries[j].value)
  IN  /\ part_indexes_have_intersection(entries[i].key, entries[j].key)
      /\ diff.ok
      /\ \/ Len(diff.part.indexes) < Len(entries[i].key)
         \/ Len(diff.part.indexes) < Len(entries[j].key)

\* [made_progress, decoder]
RECURSIVE CrossScan(_, _, _)
CrossScan(decoder, entries, i) ==
  LET js == {j \in (i + 1)..Len(entries) : IsCandidate(entries, i, j)}
      j == CHOOSE x \in js : \A y \in js : x <= y
      new_part == create_symmetric_diff(entries[i].value, entries[j].value).part
      added == add_mixed_part(decoder, new_part)
  IN  IF i > Len(entries) THEN [made_progress |-> FALSE, decoder |-> decoder]
      ELSE IF js = {} THEN CrossScan(decoder, entries, i + 1)
      ELSE IF is_simple_part(new_part)
        THEN IF part_indexes_contains(decoder.received_part_indexes, get_part_index(new_part))
             THEN CrossScan(decoder, entries, i + 1)
             ELSE [made_progress |-> TRUE, decoder |-> queue_enqueue(decoder, new_part)]
      ELSE IF added.ok
        THEN [made_progress |-> TRUE,
              decoder |-> gaussian_reduce_with_new_part(added.decoder, new_part)]
      ELSE CrossScan(decoder, entries, i + 1)

\* the entries collected at the start of an iteration
CollectEntries(hash) ==
  SubSeq(HashEntries(hash), 1, Min(Len(HashEntries(hash)), hash.count))

\* while (made_progress && iteration < CROSS_REDUCTION_MAX_ITERATIONS);
\* scan is what the iteration before returned
RECURSIVE CrossLoop(_, _)
CrossLoop(scan, iteration) ==
  IF ~scan.made_progress \/ iteration >= CROSS_REDUCTION_MAX_ITERATIONS THEN scan.decoder
  ELSE CrossLoop(CrossScan(scan.decoder, CollectEntries(scan.decoder.mixed_parts_hash), 1),
                 iteration + 1)

reduce_mixed_against_mixed(decoder) ==
  IF decoder.mixed_parts_hash.capacity = 0 \/ decoder.mixed_parts_hash.count < 2 THEN decoder
  ELSE CrossLoop([made_progress |-> TRUE, decoder |-> decoder], 0)

\* the head of the queue is processed and stays on the queue
process_queue_item_peek(decoder) ==
  LET part == Head(decoder.queue)
  IN  IF Len(decoder.queue) = 0 THEN decoder
      ELSE reduce_mixed_against_mixed(
             IF is_simple_part(part)
             THEN reduce_mixed_by(process_simple_part(decoder, part), part)
             ELSE process_mixed_part(decoder, part))

process_queue_item(decoder) ==
  LET part == Head(decoder.queue)
      dequeued == [decoder EXCEPT !.queue = Tail(decoder.queue)]
  IN  IF Len(decoder.queue) = 0 THEN decoder
      ELSE reduce_mixed_against_mixed(
             IF is_simple_part(part)
             THEN reduce_mixed_by(process_simple_part(dequeued, part), part)
             ELSE process_mixed_part(dequeued, part))

fountain_decoder_is_complete(decoder) == Len(decoder.result) # 0
fountain_decoder_is_success(decoder) == Len(decoder.result) # 0 /\ decoder.result[1].is_success
fountain_decoder_is_failure(decoder) == Len(decoder.result) # 0 /\ decoder.result[1].is_error

\* an if in place of the while: one item is processed
DrainOnce(decoder) ==
  IF fountain_decoder_is_complete(decoder) \/ Len(decoder.queue) = 0 THEN decoder
  ELSE process_queue_item(decoder)

\* while (!is_complete && !queue_is_empty) process_queue_item
RECURSIVE DrainQueue(_)
DrainQueue(decoder) ==
  IF fountain_decoder_is_complete(decoder) \/ Len(decoder.queue) = 0 THEN decoder
  ELSE DrainQueue(process_queue_item(decoder))

\* the expected values follow every part; the two tables are set up once
AdoptLatest(decoder, part) ==
  LET hash_capacity == IF part.seq_len < (HASH_MIN_CAPACITY \div HASH_CAPACITY_MULTIPLIER)
                       THEN HASH_MIN_CAPACITY
                       ELSE part.seq_len * HASH_CAPACITY_MULTIPLIER
  IN  [decoder EXCEPT
         !.expected_part_indexes = << [i \in 1..part.seq_len |-> i - 1] >>,
         !.expected_checksum = part.checksum,
         !.expected_fragment_len = Len(part.data),
         !.expected_message_len = part.message_len,
         !.mixed_parts_hash = IF Len(decoder.expected_part_indexes) # 0 THEN @
                              ELSE mixed_hash_init(hash_capacity),
         !.received_fragments_hashes = IF Len(decoder.expected_part_indexes) # 0 THEN @
                                       ELSE [hashes |-> << >>, capacity |-> hash_capacity]]

\* the expected values and the two tables are set up by the first part only
AdoptExpected(decoder, part) ==
  LET hash_capacity == IF part.seq_len < (HASH_MIN_CAPACITY \div HASH_CAPACITY_MULTIPLIER)
                       THEN HASH_MIN_CAPACITY
                       ELSE part.seq_len * HASH_CAPACITY_MULTIPLIER
  IN  IF Len(decoder.expected_part_indexes) # 0 THEN decoder
      ELSE [decoder EXCEPT
              !.expected_part_indexes = << [i \in 1..part.seq_len |-> i - 1] >>,
              !.expected_checksum = part.checksum,
              !.expected_fragment_len = Len(part.data),
              !.expected_message_len = part.message_len,
              !.mixed_parts_hash = mixed_hash_init(hash_capacity),
              !.received_fragments_hashes = [hashes |-> << >>, capacity |-> hash_capacity]]

\* [ok, decoder]; part is [seq_num, seq_len, message_len, checksum, data]
fountain_decoder_receive_part(decoder, part) ==
  LET adopted == AdoptExpected(decoder, part)
      created == create_decoder_part_from_encoder_part(part)
      decoder_part == created.part
      fragment_hash == hash_indexes(decoder_part.indexes)
      tracked == [adopted EXCEPT
                    !.received_fragments_hashes = hash_set_add(@, fragment_hash),
                    !.last_part_indexes = decoder_part.indexes]
      drained == DrainQueue(queue_enqueue(tracked, decoder_part))
  IN  IF fountain_decoder_is_complete(decoder) THEN [ok |-> FALSE, decoder |-> decoder]
      ELSE IF decoder.has_received_fragment /\ part.seq_num = decoder.last_fragment_seq_num
        THEN [ok |-> TRUE, decoder |-> decoder]
      ELSE IF ~created.ok THEN [ok |-> FALSE, decoder |-> adopted]
      ELSE IF hash_set_contains(adopted.received_fragments_hashes, fragment_hash)
        THEN [ok |-> TRUE, decoder |-> adopted]
      ELSE IF Len(tracked.queue) >= QUEUE_INITIAL_CAPACITY
        THEN [ok |-> FALSE, decoder |-> tracked]
      ELSE [ok |-> TRUE,
            decoder |-> [drained EXCEPT !.processed_parts_count = @ + 1,
                                        !.last_fragment_seq_num = part.seq_num,
                                        !.has_received_fragment = TRUE]]

\* the number of parts processed in place of the number of parts expected
expected_part_count_of_processed(decoder) == decoder.processed_parts_count

fountain_decoder_expected_part_count(decoder) ==
  IF Len(decoder.expected_part_indexes) = 0 THEN 0 ELSE Len(decoder.expected_part_indexes[1])

\* the double it returns, as the fraction [num, den]: 1.0, 0.0, 0.99, or
\* processed_parts_count / (expected_part_count * 1.75), which is
\* 4 * processed_parts_count / (7 * expected_part_count)
fountain_decoder_estimated_percent_complete(decoder) ==
  IF fountain_decoder_is_complete(decoder) THEN [num |-> 1, den |-> 1]
  ELSE IF Len(decoder.expected_part_indexes) = 0 THEN [num |-> 0, den |-> 1]
  ELSE IF 4 * decoder.processed_parts_count * 100
            > 99 * 7 * fountain_decoder_expected_part_count(decoder)
    THEN [num |-> 99, den |-> 100]
  ELSE [num |-> 4 * decoder.processed_parts_count,
        den |-> 7 * fountain_decoder_expected_part_count(decoder)]

(***************************************************************************)
(* ur_decoder.c.  The decoder is [fountain_decoder, expected_type, result, *)
(* is_complete_flag, last_error]; expected_type and result are << >> for   *)
(* NULL, result else <<[type, cbor_data]>>.                                *)
(***************************************************************************)
ur_decoder_new ==
  [fountain_decoder |-> fountain_decoder_new, expected_type |-> << >>,
   result |-> << >>, is_complete_flag |-> FALSE, last_error |-> "OK"]

\* [ok, decoder]
validate_part_type(decoder, type) ==
  IF Len(decoder.expected_type) = 0
  THEN IF ~is_ur_type(type)
       THEN [ok |-> FALSE, decoder |-> [decoder EXCEPT !.last_error = "INVALID_TYPE"]]
       ELSE [ok |-> TRUE, decoder |-> [decoder EXCEPT !.expected_type = type]]
  ELSE IF decoder.expected_type # type
       THEN [ok |-> FALSE, decoder |-> [decoder EXCEPT !.last_error = "INVALID_TYPE"]]
       ELSE [ok |-> TRUE, decoder |-> decoder]

\* << >> for NULL, else <<[type, cbor_data]>>: the trailing CRC words are dropped unread
decode_single_part(type, body) ==
  LET raw == bytewords_decode_raw(body)
  IN  IF ~raw.ok THEN << >> ELSE << [type |-> type, cbor_data |-> raw.decoded] >>

\* the end of the multi-part branch: `received` is what
\* fountain_decoder_receive_part returned
AfterFountainReceive(decoder, type, received) ==
  LET fd == received.decoder
      d1 == [decoder EXCEPT !.fountain_decoder = received.decoder]
  IN  IF ~received.ok
      THEN [ok |-> FALSE, decoder |-> [d1 EXCEPT !.last_error = "INVALID_PART"]]
      ELSE IF ~fountain_decoder_is_complete(fd) THEN [ok |-> TRUE, decoder |-> d1]
      ELSE IF fountain_decoder_is_success(fd)
      THEN [ok |-> TRUE,
            decoder |-> [d1 EXCEPT !.result = << [type |-> type,
                                                   cbor_data |-> fd.result[1].data] >>,
                                   !.is_complete_flag = TRUE]]
      ELSE [ok |-> TRUE,
            decoder |-> [d1 EXCEPT !.last_error = "INVALID_CHECKSUM",
                                   !.is_complete_flag = TRUE]]

\* the multi-part branch once the fountain header is parsed
ReceiveFountainPart(decoder, type, seq, header) ==
  IF ~header.ok
  THEN [ok |-> FALSE, decoder |-> [decoder EXCEPT !.last_error = header.error]]
  ELSE AfterFountainReceive(decoder, type,
         fountain_decoder_receive_part(decoder.fountain_decoder,
           [seq_num |-> seq.seq_num, seq_len |-> seq.seq_len,
            message_len |-> header.message_len, checksum |-> header.checksum,
            data |-> header.data]))

\* the multi-part branch once type, sequence component and body are at hand
ReceiveMultiPart(decoder, type, seq, cbor) ==
  ReceiveFountainPart(decoder, type, seq, ParseFountainHeader(cbor))

\* the single-part branch: `single` is what decode_single_part returned
ReceiveSinglePart(decoder, single) ==
  IF Len(single) # 0
  THEN [ok |-> TRUE, decoder |-> [decoder EXCEPT !.result = single,
                                                 !.is_complete_flag = TRUE]]
  ELSE [ok |-> FALSE, decoder |-> [decoder EXCEPT !.result = single,
                                                  !.last_error = "INVALID_FRAGMENT"]]

\* the two-component branch once the sequence component and the body are decoded
ReceiveSequenced(decoder, type, seq, raw) ==
  IF ~seq.ok
  THEN [ok |-> FALSE, decoder |-> [decoder EXCEPT !.last_error = "INVALID_SEQUENCE_COMPONENT"]]
  ELSE IF ~raw.ok
  THEN [ok |-> FALSE, decoder |-> [decoder EXCEPT !.last_error = "INVALID_FRAGMENT"]]
  ELSE ReceiveMultiPart(decoder, type, seq, raw.decoded)

\* the part of ur_decoder_receive_part after validate_part_type
ReceiveValidated(validated, parsed) ==
  IF ~validated.ok THEN [ok |-> FALSE, decoder |-> validated.decoder]
  ELSE IF Len(parsed.components) = 1
  THEN ReceiveSinglePart(validated.decoder,
                         decode_single_part(parsed.type, parsed.components[1]))
  ELSE IF Len(parsed.components) # 2
  THEN [ok |-> FALSE, decoder |-> [validated.decoder EXCEPT !.last_error = "INVALID_PATH_LENGTH"]]
  ELSE ReceiveSequenced(validated.decoder, parsed.type,
                        parse_sequence_component(parsed.components[1]),
                        bytewords_decode_raw(parsed.components[2]))

\* the part of ur_decoder_receive_part after parse_ur_string; last_error is OK
ReceiveParsed(decoder, parsed) ==
  IF ~parsed.ok
  THEN [ok |-> FALSE, decoder |-> [decoder EXCEPT !.last_error = "INVALID_SCHEME"]]
  ELSE ReceiveValidated(validate_part_type(decoder, parsed.type), parsed)

\* ur_decoder_receive_part past its is_complete_flag test: [ok, decoder]
ReceiveIncomplete(decoder, part_str) ==
  ReceiveParsed([decoder EXCEPT !.last_error = "OK"], parse_ur_string(part_str))

\* a receive that does not look at is_complete_flag
receive_part_unguarded(decoder, part_str) == ReceiveIncomplete(decoder, part_str)

\* [ok, decoder]
ur_decoder_receive_part(decoder, part_str) ==
  IF decoder.is_complete_flag THEN [ok |-> FALSE, decoder |-> decoder]
  ELSE ReceiveIncomplete(decoder, part_str)

ur_decoder_is_complete(decoder) == decoder.is_complete_flag

ur_decoder_estimated_percent_complete(decoder) ==
  fountain_decoder_estimated_percent_complete(decoder.fountain_decoder)
ur_decoder_is_success(decoder) == decoder.is_complete_flag /\ Len(decoder.result) # 0

(***************************************************************************)
(* The system: one encoder for the payload, a channel that may lose,       *)
(* repeat and reorder what the encoder emitted and may alter one part,     *)
(* and one decoder.                                                        *)
(***************************************************************************)
Payload == <<12, 30, 63, 1, 23>>
UrType == <<98, 121, 116, 101, 115>>          \* "bytes"
\* (max_fragment_len, min_fragment_len) of the encoder: 3, 2 and 1 fragments
EncoderSettings == {<<2, 1>>, <<3, 1>>, <<5, 1>>}
MaxSeqNum == 5

VARIABLES
  encoder,     \* the ur_encoder_t
  emitted,     \* the strings returned by ur_encoder_next_part so far
  decoder,     \* the ur_decoder_t
  ret,         \* what the last ur_decoder_receive_part returned ("none" before the first)
  altered,     \* how the channel altered the one part it may alter ("none" so far)
  accepted     \* checksum fields of the multi-part parts accepted so far

vars == << encoder, emitted, decoder, ret, altered, accepted >>

\* the bytes a bytewords body stands for, CRC words included
BodyBytes(body) ==
  [i \in 1..(Len(body) \div 2) |-> decode_word_optimized(<< body[2 * i - 1], body[2 * i] >>)]

WordsOf(bytes) ==
  Flatten([i \in 1..Len(bytes) |->
             << toupper(bytewords[bytes[i] + 1][1]), toupper(bytewords[bytes[i] + 1][4]) >>])

\* position of the last '/' of a text
LastSlash(text) == CHOOSE p \in 1..Len(text) :
                     text[p] = 47 /\ \A q \in (p + 1)..Len(text) : text[q] # 47

\* the text with the low bit of byte pos of its body flipped, CRC words untouched
CorruptBody(text, pos) ==
  LET s == LastSlash(text)
      bytes == BodyBytes(SubSeq(text, s + 1, Len(text)))
  IN  SubSeq(text, 1, s) \o WordsOf([bytes EXCEPT ![pos] = BitXor(@, 1)])

\* the text with the seq_len of its sequence component raised by one
RaiseSeqLen(text) ==
  LET parsed == parse_ur_string(text)
      seq == parse_sequence_component(parsed.components[1])
  IN  encode_ur(<< parsed.type,
                   Decimal(seq.seq_num) \o <<45>> \o Decimal(seq.seq_len + 1),
                   parsed.components[2] >>)

IsMultiPart(text) == Len(parse_ur_string(text).components) = 2

\* the text under another type tag
Retyped(parsed, type) == encode_ur(<< type >> \o parsed.components)

\* the multi-part text with sequence number 0
ZeroSeqNum(parsed) ==
  encode_ur(<< parsed.type,
               <<48, 45>> \o Decimal(parse_sequence_component(parsed.components[1]).seq_len),
               parsed.components[2] >>)

\* the text with a character that starts no byteword in place of its last one
BadWord(text) == [text EXCEPT ![Len(text)] = 49]

\* the type tags the channel may put in place of "bytes": one outside the
\* type grammar ("bytes-") and one inside it ("bytez")
TypeOutsideGrammar == <<98, 121, 116, 101, 115, 45>>
OtherType == <<98, 121, 116, 101, 122>>

\* texts that differ from a part in the framing: the scheme, the type tag,
\* the letter case, the last byteword
Reframed(text) ==
  {[kind |-> "scheme", text |-> [text EXCEPT ![1] = 88]],
   [kind |-> "type_grammar", text |-> Retyped(parse_ur_string(text), TypeOutsideGrammar)],
   [kind |-> "type_other", text |-> Retyped(parse_ur_string(text), OtherType)],
   [kind |-> "lower_case", text |-> str_to_lower(text)],
   [kind |-> "byteword", text |-> BadWord(text)]}

\* what the channel may do to a part: reframe it; flip the low bit of
\* message_len, of the checksum or of the last fragment byte, raise seq_len,
\* zero seq_num or repeat the sequence component, for a multi-part part;
\* flip the low bit of the first payload byte for a single-part UR.  The
\* result is [kind, text].
Alterations(text) ==
  Reframed(text) \cup
  (IF IsMultiPart(text)
   THEN {[kind |-> "message_len", text |-> CorruptBody(text, 4)],
         [kind |-> "checksum", text |-> CorruptBody(text, 9)],
         [kind |-> "data",
          text |-> CorruptBody(text, Len(BodyBytes(parse_ur_string(text).components[2])) - 4)],
         [kind |-> "seq_len", text |-> RaiseSeqLen(text)],
         [kind |-> "seq_num", text |-> ZeroSeqNum(parse_ur_string(text))],
         [kind |-> "path", text |-> text \o SubSeq(text, LastSlash(text), Len(text))]}
   ELSE {[kind |-> "payload", text |-> CorruptBody(text, 1)]})

\* the checksum field of a multi-part text, << >> when there is none
HeaderChecksum(header) == IF header.ok THEN << header.checksum >> ELSE << >>

BodyChecksum(raw) ==
  IF raw.ok THEN HeaderChecksum(ParseFountainHeader(raw.decoded)) ELSE << >>

PartChecksum(parsed) ==
  IF parsed.ok /\ Len(parsed.components) = 2
  THEN BodyChecksum(bytewords_decode_raw(parsed.components[2])) ELSE << >>

ChecksumField(text) == PartChecksum(parse_ur_string(text))

Init ==
  /\ \E m \in EncoderSettings : encoder = ur_encoder_new(UrType, Payload, m[1], 0, m[2])
  /\ emitted = << >>
  /\ decoder = ur_decoder_new
  /\ ret = "none"
  /\ altered = "none"
  /\ accepted = {}

\* ur_encoder_next_part
Emitted(next) ==
  /\ encoder' = next.encoder
  /\ emitted' = IF next.ok THEN Append(emitted, next.ur_string) ELSE emitted

EncoderNextPart ==
  /\ Len(emitted) < MaxSeqNum
  /\ Emitted(ur_encoder_next_part(encoder))
  /\ UNCHANGED << decoder, ret, altered, accepted >>

\* ur_decoder_receive_part on the text
Returned(received, field) ==
  /\ decoder' = received.decoder
  /\ ret' = IF received.ok THEN "success" ELSE "failure"
  /\ accepted' = IF received.ok /\ Len(field) # 0
                 THEN accepted \cup {field[1]} ELSE accepted

Receive(text) == Returned(ur_decoder_receive_part(decoder, text), ChecksumField(text))

\* the channel delivers a part as emitted (any of them, any number of times)
ReceivePart ==
  \E i \in 1..Len(emitted) :
    /\ Receive(emitted[i])
    /\ UNCHANGED << encoder, emitted, altered >>

\* the channel delivers an altered copy of an emitted part, once
ReceiveAltered ==
  /\ altered = "none"
  /\ \E i \in 1..Len(emitted) : \E a \in Alterations(emitted[i]) :
       /\ Receive(a.text)
       /\ altered' = a.kind
       /\ UNCHANGED << encoder, emitted >>

Next == EncoderNextPart \/ ReceivePart \/ ReceiveAltered

Spec == Init /\ [][Next]_vars

(***************************************************************************)
(* Encoder construction on its own: ur_encoder_new over every payload      *)
(* length, type and fragment-length parameters within the bounds, then the *)
(* systematic parts of the encoder it returned.                            *)
(***************************************************************************)
MaxMessageLen == 6
MaxFragmentLen == 6
DEFAULT_MIN_FRAGMENT_LEN == 10

\* one payload of each length, 0 (no payload) included
Messages == {[i \in 1..n |-> (37 * i + 11) % 256] : n \in 0..MaxMessageLen}
UrTypes == {UrType, OtherType}
MaxFragmentLens == 0..MaxFragmentLen
MinFragmentLens == (0..3) \cup {DEFAULT_MIN_FRAGMENT_LEN}

EncInit ==
  /\ \E type \in UrTypes, message \in Messages,
        max_fragment_len \in MaxFragmentLens, min_fragment_len \in MinFragmentLens :
       encoder = ur_encoder_new(type, message, max_fragment_len, 0, min_fragment_len)
  /\ emitted = << >>
  /\ decoder = ur_decoder_new
  /\ ret = "none"
  /\ altered = "none"
  /\ accepted = {}

\* ur_encoder_next_part, up to the last part of the systematic prefix
EncNextPart ==
  /\ encoder.ok
  /\ Len(emitted) < Len(encoder.fountain_encoder.fragments)
  /\ Emitted(ur_encoder_next_part(encoder))
  /\ UNCHANGED << decoder, ret, altered, accepted >>

EncNext == EncNextPart

EncSpec == EncInit /\ [][EncNext]_vars

(***************************************************************************)
(* The multi-part encoder started at sequence numbers next to 0, to 2^31   *)
(* and to 2^32, and called MaxSeqNum times.                                *)
(***************************************************************************)
FirstSeqNums == (0..2) \cup (2147483644..2147483646) \cup (-5..-1)

WrapInit ==
  /\ \E m \in {e \in EncoderSettings : e[1] < Len(Payload)}, first_seq_num \in FirstSeqNums :
       encoder = ur_encoder_new(UrType, Payload, m[1], first_seq_num, m[2])
  /\ emitted = << >>
  /\ decoder = ur_decoder_new
  /\ ret = "none"
  /\ altered = "none"
  /\ accepted = {}

WrapSpec == WrapInit /\ [][EncoderNextPart]_vars

(***************************************************************************)
(* Single-part URs of many payloads: every byte value as a one-byte        *)
(* payload and as the first byte of the longer ones, so that every         *)
(* byteword is written by bytewords_encode and read by                     *)
(* bytewords_decode_raw; the channel and the decoder are those of Spec.    *)
(***************************************************************************)
MaxBytesLen == 2
ByteStrings ==
  {<< b >> : b \in 0..255} \cup
  {[i \in 1..n |-> (b + 37 * (i - 1)) % 256] : b \in {0, 128, 255}, n \in 2..MaxBytesLen}

WordsInit ==
  /\ \E cbor_data \in ByteStrings :
       encoder = ur_encoder_new(UrType, cbor_data, MaxBytesLen, 0, 1)
  /\ emitted = << >>
  /\ decoder = ur_decoder_new
  /\ ret = "none"
  /\ altered = "none"
  /\ accepted = {}

WordsSpec == WordsInit /\ [][Next]_vars

(***************************************************************************)
(* A cascade: an 18-byte payload in 18 fragments of one byte.  The sender  *)
(* builds an encoder at the sequence number it wants (first_seq_num) and   *)
(* takes its next part; it sends the parts that mix fragment 17 with one   *)
(* other fragment, in the order of their sequence numbers, and at some     *)
(* point part 18, which is fragment 17 alone.  Each part is delivered      *)
(* before the next is sent.                                                *)
(***************************************************************************)
LongPayload == << 48, 85, 122, 159, 196, 233, 14, 51, 88, 125, 162, 199, 236, 17, 54, 91, 128, 165 >>

\* the sequence component of a multi-part text
SequenceOf(text) == parse_sequence_component(parse_ur_string(text).components[1])

\* the encoder whose next part has the sequence number seq_num
EncoderAt(seq_num) == ur_encoder_new(UrType, LongPayload, 1, seq_num - 1, 1)

\* the texts sent so far that are mixed parts, and whether part 18 was sent
MixedSent == Len(SelectSeq(emitted, LAMBDA text : SequenceOf(text).seq_num # Len(LongPayload)))
HubSent == MixedSent < Len(emitted)
Delivered == decoder.fountain_decoder.processed_parts_count

CascadeInit ==
  /\ encoder = EncoderAt(1)
  /\ emitted = << >>
  /\ decoder = ur_decoder_new
  /\ ret = "none"
  /\ altered = "none"
  /\ accepted = {}

\* ur_encoder_new at the next scheduled sequence number, then ur_encoder_next_part
CascadeSendMixed ==
  /\ Delivered = Len(emitted)
  /\ MixedSent < Len(SampledRowsLong)
  /\ Emitted(ur_encoder_next_part(EncoderAt(SampledRowsLong[MixedSent + 1].seq_num)))
  /\ UNCHANGED << decoder, ret, altered, accepted >>

\* ur_encoder_new at sequence number 18, then ur_encoder_next_part
CascadeSendHub ==
  /\ Delivered = Len(emitted)
  /\ ~HubSent
  /\ Emitted(ur_encoder_next_part(EncoderAt(Len(LongPayload))))
  /\ UNCHANGED << decoder, ret, altered, accepted >>

\* ur_decoder_receive_part on the part sent last
CascadeReceive ==
  /\ Delivered < Len(emitted)
  /\ Receive(emitted[Len(emitted)])
  /\ UNCHANGED << encoder, emitted, altered >>

CascadeNext == CascadeSendMixed \/ CascadeSendHub \/ CascadeReceive

CascadeSpec == CascadeInit /\ [][CascadeNext]_vars

(***************************************************************************)
(* What the claims speak of.                                               *)
(***************************************************************************)
Fountain == decoder.fountain_decoder

\* the known source fragments: index |-> bytes
KnownIndexes(fd) == {fd.simple_parts[i].key : i \in 1..Len(fd.simple_parts)}
KnownBytes(fd, index) ==
  (CHOOSE i \in 1..Len(fd.simple_parts) : fd.simple_parts[i].key = index)
KnownData(fd, index) == fd.simple_parts[KnownBytes(fd, index)].value.data

\* the pending mixed equations, in table order
Pending(fd) == HashEntries(fd.mixed_parts_hash)

IndexSet(indexes) == {indexes[i] : i \in 1..Len(indexes)}

\* seq_len as adopted from the first part (0 before)
AdoptedSeqLen(fd) == fountain_decoder_expected_part_count(fd)

SeqLen == Len(encoder.fountain_encoder.fragments)

\* C1: with parts of one encoder only (any order, repeats, losses), whenever
\* the decoder is complete and successful its result bytes are the payload.
C1_RoundTrip ==
  (altered = "none" /\ ur_decoder_is_complete(decoder) /\ ur_decoder_is_success(decoder))
    => decoder.result[1].cbor_data = Payload

\* a multi-part reassembly that used a mixed part ended in success
C1_Witness ==
  /\ altered = "none"
  /\ ur_decoder_is_success(decoder)
  /\ fountain_decoder_is_success(Fountain)
  /\ Len(Fountain.last_part_indexes) > 1
  /\ decoder.result[1].cbor_data = Payload

\* C2: when only the first seq_len parts of a multi-part message exist and
\* the decoder has taken each of them (in whatever order), it is complete
\* and successful.
C2_FirstSeqLenParts ==
  (/\ altered = "none"
   /\ SeqLen >= 2
   /\ Len(emitted) <= SeqLen
   /\ Fountain.processed_parts_count = SeqLen)
    => (ur_decoder_is_complete(decoder) /\ ur_decoder_is_success(decoder))

\* three fragments taken with the last index first, and the decoder is done
C2_Witness ==
  /\ altered = "none"
  /\ SeqLen = 3
  /\ Len(emitted) = SeqLen
  /\ Fountain.processed_parts_count = SeqLen
  /\ Fountain.received_part_indexes[1] = 2
  /\ ur_decoder_is_complete(decoder) /\ ur_decoder_is_success(decoder)

\* C3: after a successful multi-part reassembly the CRC-32 of the result
\* equals the checksum field of every part the decoder accepted.
C3_CrcSoundness ==
  (ur_decoder_is_success(decoder) /\ fountain_decoder_is_success(Fountain))
    => \A c \in accepted : crc32_calculate(decoder.result[1].cbor_data) = c

\* C4: once the parameters are adopted, a part whose seq_len, message_len or
\* checksum differs is refused with the invalid-part error and the fountain
\* decoder is left as it was.
C4_ParameterMismatch ==
  [][(/\ altered = "none"
      /\ altered' \in {"seq_len", "message_len", "checksum"}
      /\ AdoptedSeqLen(Fountain) # 0
      /\ ~ur_decoder_is_complete(decoder))
       => (/\ ret' = "failure"
           /\ decoder'.last_error = "INVALID_PART"
           /\ decoder'.fountain_decoder = decoder.fountain_decoder)]_vars

\* C5: a single-part UR whose payload no longer matches its CRC words, fed
\* to a decoder that is not complete, is refused or leaves the decoder
\* unsuccessful with the invalid-checksum error.
C5_CorruptionDetection ==
  [][(altered = "none" /\ altered' = "payload" /\ ~ur_decoder_is_complete(decoder))
       => (/\ ~ur_decoder_is_success(decoder')
           /\ ret' = "failure" \/ decoder'.last_error = "INVALID_CHECKSUM")]_vars

\* a decoder with the counters of a duplicate left out
Core(d) ==
  [known |-> d.fountain_decoder.simple_parts,
   pending |-> d.fountain_decoder.mixed_parts_hash,
   expected |-> << d.fountain_decoder.expected_part_indexes,
                   d.fountain_decoder.expected_fragment_len,
                   d.fountain_decoder.expected_message_len,
                   d.fountain_decoder.expected_checksum >>,
   result |-> d.result,
   complete |-> d.is_complete_flag]

\* C6: in every state, a part the decoder takes and is then given again is
\* answered with success the second time and changes nothing but counters.
C6_DuplicateIdempotence ==
  \A i \in 1..Len(emitted) :
    LET first == ur_decoder_receive_part(decoder, emitted[i])
        second == ur_decoder_receive_part(first.decoder, emitted[i])
    IN  first.ok => (second.ok /\ Core(second.decoder) = Core(first.decoder))

\* C7: once the decoder is complete, a receive_part call leaves is_complete,
\* is_success, the result, the known fragments and the pending equations
\* as they were.
C7_IgnoredWhenComplete ==
  [][ur_decoder_is_complete(decoder)
       => (/\ ur_decoder_is_complete(decoder')
           /\ ur_decoder_is_success(decoder') = ur_decoder_is_success(decoder)
           /\ decoder'.result = decoder.result
           /\ decoder'.fountain_decoder.simple_parts = Fountain.simple_parts
           /\ decoder'.fountain_decoder.mixed_parts_hash = Fountain.mixed_parts_hash)]_vars

\* a call made on a complete decoder returned (it is the only way to be
\* complete with a refused last call)
C7_Witness == ur_decoder_is_complete(decoder) /\ ret = "failure"

\* C8: a receive_part call never removes a known fragment index and never
\* changes the bytes stored for one.
C8_NoRegression ==
  [][/\ KnownIndexes(Fountain) \subseteq KnownIndexes(decoder'.fountain_decoder)
     /\ \A index \in KnownIndexes(Fountain) :
          KnownData(decoder'.fountain_decoder, index) = KnownData(Fountain, index)]_vars

\* two fragments are known, the second one found by reducing a mixed part
C8_Witness ==
  /\ Len(Fountain.simple_parts) >= 2
  /\ Len(Fountain.last_part_indexes) > 1
  /\ ret = "success"

\* C9: every known index and every index of a pending equation is below the
\* adopted seq_len.
C9_IndexRange ==
  /\ \A index \in KnownIndexes(Fountain) : index < AdoptedSeqLen(Fountain)
  /\ \A i \in 1..Len(Pending(Fountain)) :
       \A index \in IndexSet(Pending(Fountain)[i].key) : index < AdoptedSeqLen(Fountain)

\* C10: no two pending equations have the same index set.
C10_PendingUnique ==
  \A i, j \in 1..Len(Pending(Fountain)) :
    i # j => IndexSet(Pending(Fountain)[i].key) # IndexSet(Pending(Fountain)[j].key)

\* C11: every pending mixed equation has at least two indexes (an equation
\* reduced to one index has left the table, the zero equation never enters).
C11_PendingAtLeastTwo ==
  \A i \in 1..Len(Pending(Fountain)) : Len(Pending(Fountain)[i].key) >= 2

\* C12: once the known fragments cover every index below the adopted seq_len,
\* the fountain decoder's result slot is filled.
C12_Completion ==
  (/\ AdoptedSeqLen(Fountain) > 0
   /\ \A index \in 0..(AdoptedSeqLen(Fountain) - 1) : index \in KnownIndexes(Fountain))
    => Fountain.result # << >>

\* every index below the adopted seq_len is a known fragment
AllKnown(fd) ==
  \A index \in 0..(AdoptedSeqLen(fd) - 1) : index \in KnownIndexes(fd)

\* the known fragments in index order, laid end to end and cut to message_len
Reassembled(fd) ==
  join_fragments([i \in 1..Len(fd.simple_parts) |->
                    SortSeq(fd.simple_parts, LAMBDA x, y : x.key < y.key)[i].value.data],
                 fd.expected_message_len)

Kept(d) ==
  [expected_type |-> d.expected_type,
   expected |-> << d.fountain_decoder.expected_part_indexes,
                   d.fountain_decoder.expected_fragment_len,
                   d.fountain_decoder.expected_message_len,
                   d.fountain_decoder.expected_checksum >>,
   known |-> d.fountain_decoder.simple_parts,
   pending |-> d.fountain_decoder.mixed_parts_hash,
   result |-> << d.result, d.fountain_decoder.result >>]

\* C14: a call that fails with an error other than invalid-checksum leaves
\* expected type, expected parameters, known fragments, pending equations and
\* result as they were, and every emitted part that would have been accepted
\* before the call is accepted after it.
C14_ErrorsLeaveNoTrace ==
  [][(ret' = "failure" /\ decoder'.last_error # "INVALID_CHECKSUM")
       => /\ Kept(decoder') = Kept(decoder)
          /\ \A i \in 1..Len(emitted) :
                ur_decoder_receive_part(decoder, emitted[i]).ok
                  => ur_decoder_receive_part(decoder', emitted[i]).ok]_vars

\* C15: a part whose type tag is outside the type grammar is refused with the
\* invalid-type error, and so is a part whose type tag differs, letter case
\* aside, from the type already adopted.
C15_InvalidType ==
  [][/\ (altered = "none" /\ altered' = "type_grammar" /\ ~decoder.is_complete_flag)
          => (ret' = "failure" /\ decoder'.last_error = "INVALID_TYPE")
     /\ (/\ altered = "none" /\ altered' = "type_other"
         /\ ~decoder.is_complete_flag /\ Len(decoder.expected_type) # 0)
          => (ret' = "failure" /\ decoder'.last_error = "INVALID_TYPE")
     /\ (altered = "none" /\ altered' = "lower_case" /\ ~decoder.is_complete_flag)
          => decoder'.last_error # "INVALID_TYPE"]_vars

\* C16: when the last call returned false, last_error is not OK.
C16_FalseHasError == ret = "failure" => decoder.last_error # "OK"

\* the k-th slice of fragment_len bytes of the message, zeros past its end
SourceFragment(message, k, fragment_len) ==
  [j \in 1..fragment_len |->
     IF (k - 1) * fragment_len + j <= Len(message)
     THEN message[(k - 1) * fragment_len + j] ELSE 0]

\* the fountain header of a multi-part text
HeaderOf(text) ==
  ParseFountainHeader(bytewords_decode_raw(parse_ur_string(text).components[2]).decoded)

IsSystematic(k, seq, header) ==
  /\ seq.ok /\ header.ok
  /\ seq.seq_num = k
  /\ seq.seq_len = SeqLen
  /\ choose_fragments(seq.seq_num, seq.seq_len, header.checksum).indexes = << k - 1 >>
  /\ header.data = SourceFragment(encoder.cbor_data, k, encoder.fountain_encoder.fragment_len)

\* C17: the k-th part of an encoder started at sequence number 0, k up to
\* seq_len, has seq_num k, the index set {k-1} and the bytes of the k-th
\* source fragment, the last one padded with zeros.
C17_SystematicPrefix ==
  \A k \in 1..Len(emitted) :
    (SeqLen >= 2 /\ k <= SeqLen) => IsSystematic(k, SequenceOf(emitted[k]), HeaderOf(emitted[k]))

\* every systematic part is out and the last fragment needed padding
C17_Witness ==
  /\ SeqLen >= 3
  /\ Len(emitted) = SeqLen
  /\ Len(encoder.cbor_data) % encoder.fountain_encoder.fragment_len # 0
  /\ IsSystematic(SeqLen, SequenceOf(emitted[SeqLen]), HeaderOf(emitted[SeqLen]))

\* what construction returns for the type and payload of this encoder under
\* the given fragment-length parameters
Built(max_fragment_len, min_fragment_len) ==
  ur_encoder_new(encoder.type, encoder.cbor_data, max_fragment_len, 0, min_fragment_len)

\* C18: an encoder that construction returned has min_fragment_len <=
\* fragment_len <= max_fragment_len, and ceil(message_len / fragment_len)
\* fragments, each fragment_len bytes long, which together hold the message.
C18_FragmentTable ==
  \A max_fragment_len \in MaxFragmentLens, min_fragment_len \in MinFragmentLens :
    (encoder.ok /\ encoder = Built(max_fragment_len, min_fragment_len))
      => /\ min_fragment_len <= encoder.fountain_encoder.fragment_len
         /\ encoder.fountain_encoder.fragment_len <= max_fragment_len
         /\ SeqLen * encoder.fountain_encoder.fragment_len >= Len(encoder.cbor_data)
         /\ SeqLen = CeilDiv(Len(encoder.cbor_data), encoder.fountain_encoder.fragment_len)
         /\ \A k \in 1..SeqLen :
              Len(encoder.fountain_encoder.fragments[k]) = encoder.fountain_encoder.fragment_len

\* C19: for a payload of one byte, any max_fragment_len >= 1 and the default
\* min_fragment_len, construction succeeds with one fragment, the encoder is
\* single-part and its part is the type and the body, nothing in between.
C19_OneBytePayload ==
  \A max_fragment_len \in MaxFragmentLens :
    (/\ max_fragment_len >= 1
     /\ Len(encoder.cbor_data) = 1
     /\ encoder = Built(max_fragment_len, DEFAULT_MIN_FRAGMENT_LEN))
      => /\ encoder.ok
         /\ SeqLen = 1
         /\ ur_encoder_is_single_part(encoder)
         /\ ur_encoder_next_part(encoder).ok
         /\ ~IsMultiPart(ur_encoder_next_part(encoder).ur_string)

\* C20: with a payload of length 0 neither ur_encoder_new nor
\* fountain_encoder_new returns an encoder.
C20_EmptyPayload ==
  Len(encoder.cbor_data) = 0 => (~encoder.ok /\ ~encoder.fountain_encoder.ok)

\* construction was refused for an empty payload although the fragment-length
\* parameters are in order
C20_Witness ==
  /\ Len(encoder.cbor_data) = 0
  /\ ~encoder.ok
  /\ \E max_fragment_len \in MaxFragmentLens, min_fragment_len \in MinFragmentLens :
       /\ 1 <= min_fragment_len /\ min_fragment_len <= max_fragment_len
       /\ encoder = Built(max_fragment_len, min_fragment_len)

\* C21: every call to next_part of a multi-part encoder succeeds, and the
\* part it returns has the previous seq_num plus one, in 32 bits.
C21_InfallibleIterator ==
  SeqLen >= 2 =>
    /\ ur_encoder_next_part(encoder).ok
    /\ fountain_encoder_next_part(encoder.fountain_encoder).ok
    /\ fountain_encoder_next_part(encoder.fountain_encoder).part.seq_num
         = Inc32(encoder.fountain_encoder.seq_num)

\* the fountain part ur_decoder_receive_part hands to the fountain decoder for
\* a multi-part text
FountainPartOf(seq, header) ==
  [seq_num |-> seq.seq_num, seq_len |-> seq.seq_len,
   message_len |-> header.message_len, checksum |-> header.checksum,
   data |-> header.data]

DecoderIndexes(text) ==
  create_decoder_part_from_encoder_part(FountainPartOf(SequenceOf(text), HeaderOf(text)))

\* the texts of the first k calls of ur_encoder_next_part on an encoder
RECURSIVE Stream(_, _)
Stream(enc, k) ==
  IF k = 0 THEN << >>
  ELSE << ur_encoder_next_part(enc).ur_string >>
         \o Stream(ur_encoder_next_part(enc).encoder, k - 1)

\* the encoders ur_encoder_new builds from the arguments this encoder was built from
SameArguments ==
  {e \in {ur_encoder_new(UrType, Payload, m[1], 0, m[2]) : m \in EncoderSettings} :
     e.fountain_encoder.fragment_len = encoder.fountain_encoder.fragment_len}

C23_HeaderAlone ==
  \A i \in 1..Len(emitted) :
    IsMultiPart(emitted[i]) =>
      /\ HeaderOf(RaiseSeqLen(emitted[i])) = HeaderOf(emitted[i])
      /\ ur_decoder_receive_part(decoder, RaiseSeqLen(emitted[i]))
           = ur_decoder_receive_part(decoder, emitted[i])

\* the text is ur:<type>/<bytewords>, read without regard to letter case,
\* and its body stands for the payload followed by its CRC-32
IsSinglePartOf(text, type, cbor_data) ==
  /\ parse_ur_string(text).ok
  /\ parse_ur_string(text).type = type
  /\ Len(parse_ur_string(text).components) = 1
  /\ BodyBytes(parse_ur_string(text).components[1])
       = cbor_data \o crc32_calculate(cbor_data)

\* C24: an encoder with one fragment returns the same text at every call, of
\* the form ur:<type>/<bytewords> with the payload and its CRC-32 as body, and
\* a fresh decoder that receives it is complete and successful with the
\* encoder's type and payload as result.
C24_SinglePart ==
  (encoder.ok /\ SeqLen = 1) =>
    /\ ur_encoder_next_part(encoder).ok
    /\ ur_encoder_next_part(encoder).encoder = encoder
    /\ \A i \in 1..Len(emitted) : emitted[i] = ur_encoder_next_part(encoder).ur_string
    /\ IsSinglePartOf(ur_encoder_next_part(encoder).ur_string, encoder.type, encoder.cbor_data)
    /\ ur_decoder_receive_part(ur_decoder_new, ur_encoder_next_part(encoder).ur_string).ok
    /\ ur_decoder_is_complete(ur_decoder_receive_part(ur_decoder_new, ur_encoder_next_part(encoder).ur_string).decoder)
    /\ ur_decoder_is_success(ur_decoder_receive_part(ur_decoder_new, ur_encoder_next_part(encoder).ur_string).decoder)
    /\ ur_decoder_receive_part(ur_decoder_new, ur_encoder_next_part(encoder).ur_string).decoder.result
         = << [type |-> encoder.type, cbor_data |-> encoder.cbor_data] >>

\* a single-part encoder of a six-byte payload that has emitted its text
C24_Witness ==
  /\ encoder.ok
  /\ SeqLen = 1
  /\ Len(encoder.cbor_data) = MaxMessageLen
  /\ Len(emitted) = 1
  /\ ur_decoder_is_success(ur_decoder_receive_part(ur_decoder_new, emitted[1]).decoder)

\* C26: between two calls of receive_part the work queue of a decoder that
\* is not complete is empty.
C26_AtomicReceive ==
  ~fountain_decoder_is_complete(Fountain) => Len(Fountain.queue) = 0

\* the part received last mixes several fragments and was reduced to a
\* single one by a known fragment, queued and recorded within the same call
C26_Witness ==
  /\ ret = "success"
  /\ ~fountain_decoder_is_complete(Fountain)
  /\ Len(Fountain.last_part_indexes) >= 2
  /\ Fountain.processed_parts_count = 2
  /\ Cardinality(KnownIndexes(Fountain)) = 2
  /\ Len(Pending(Fountain)) = 0
  /\ Len(Fountain.queue) = 0

\* the decoder after a fresh decoder has received the text n times
RECURSIVE FedTimes(_, _)
FedTimes(text, n) ==
  IF n = 0 THEN ur_decoder_new
  ELSE ur_decoder_receive_part(FedTimes(text, n - 1), text).decoder

\* what the first receipt leaves is what a later receipt leaves
Unchanged(first, later) ==
  /\ ~ur_decoder_is_complete(later)
  /\ ~fountain_decoder_is_complete(later.fountain_decoder)
  /\ fountain_decoder_expected_part_count(later.fountain_decoder) = SeqLen
  /\ later.fountain_decoder.simple_parts = first.fountain_decoder.simple_parts
  /\ later.fountain_decoder.mixed_parts_hash = first.fountain_decoder.mixed_parts_hash
  /\ later.fountain_decoder.received_fragments_hashes
       = first.fountain_decoder.received_fragments_hashes
  /\ later.fountain_decoder.processed_parts_count = 1

SuppressedFrom(text, first) ==
  /\ Unchanged(first, first)
  /\ ur_decoder_receive_part(first, text).ok
  /\ ur_decoder_receive_part(first, text).decoder = first
  /\ Unchanged(first, FedTimes(text, 3))

\* C27: whenever the encoder emits a multi-part part, a fresh decoder fed
\* with that part once, twice or three times is not complete, expects seq_len
\* parts, and holds after the later receipts the known fragments, the pending
\* equations, the fingerprints and the processed-parts count it held after
\* the first; the second receipt returns success and leaves the decoder as it
\* was, so that every further receipt does.
C27_DuplicateSuppression ==
  [][(emitted' # emitted /\ IsMultiPart(emitted'[Len(emitted')])) =>
       SuppressedFrom(emitted'[Len(emitted')], FedTimes(emitted'[Len(emitted')], 1))]_vars

\* the decoder has received the fifth part of a three-fragment message, a
\* part that mixes several fragments, and nothing else, and is where a
\* second receipt of that part leaves it
C27_Witness ==
  /\ SeqLen = 3
  /\ Len(emitted) = MaxSeqNum
  /\ ret = "success"
  /\ Len(Fountain.last_part_indexes) >= 2
  /\ Fountain.processed_parts_count = 1
  /\ Len(Pending(Fountain)) = 1
  /\ decoder = FedTimes(emitted[MaxSeqNum], 2)

\* the expected parameters of a fountain decoder
Expected(fd) ==
  << fd.expected_part_indexes, fd.expected_fragment_len,
     fd.expected_message_len, fd.expected_checksum >>

\* the expected parameters a part claims
Claimed(part) ==
  << << [i \in 1..part.seq_len |-> i - 1] >>, Len(part.data),
     part.message_len, part.checksum >>

\* C28: once the decoder holds expected parameters (expected part indexes,
\* so the expected part count, fragment_len, message_len, checksum), no call
\* of receive_part changes them, whether the part is as emitted or altered
\* in seq_len, message_len, checksum or anything else; and a fresh decoder
\* takes them from the first multi-part part it receives.
C28_ExpectedImmutable ==
  [][/\ Len(Fountain.expected_part_indexes) # 0 =>
          Expected(decoder'.fountain_decoder) = Expected(Fountain)
     /\ (emitted' # emitted /\ IsMultiPart(emitted'[Len(emitted')])) =>
          Expected(FedTimes(emitted'[Len(emitted')], 1).fountain_decoder)
            = Claimed(FountainPartOf(SequenceOf(emitted'[Len(emitted')]),
                                     HeaderOf(emitted'[Len(emitted')])))]_vars

\* the decoder took its expected parameters from a part as emitted, and has
\* since received the part whose seq_len the channel raised and a further
\* part
C28_Witness ==
  /\ SeqLen = 3
  /\ altered = "seq_len"
  /\ fountain_decoder_expected_part_count(Fountain) = SeqLen
  /\ Fountain.expected_checksum = encoder.fountain_encoder.checksum
  /\ Fountain.processed_parts_count >= 2

\* two fractions that stand for the same number
SameNumber(a, b) == a.num * b.den = b.num * a.den

\* C29: ur_decoder_estimated_percent_complete returns 1.0 whenever
\* ur_decoder_is_complete is true, after a single-part UR as after a
\* multi-part one; while the decoder is incomplete and expects parts it
\* returns min(0.99, processed_parts / (expected_part_count * 1.75)), and
\* never more than 0.99.
C29_ProgressEstimate ==
  /\ ur_decoder_is_complete(decoder) =>
       SameNumber(ur_decoder_estimated_percent_complete(decoder), [num |-> 1, den |-> 1])
  /\ ~ur_decoder_is_complete(decoder) =>
       /\ ur_decoder_estimated_percent_complete(decoder).num * 100
            <= 99 * ur_decoder_estimated_percent_complete(decoder).den
       /\ fountain_decoder_expected_part_count(Fountain) > 0 =>
            SameNumber(ur_decoder_estimated_percent_complete(decoder),
                       IF 4 * Fountain.processed_parts_count * 100
                            > 99 * 7 * fountain_decoder_expected_part_count(Fountain)
                       THEN [num |-> 99, den |-> 100]
                       ELSE [num |-> 4 * Fountain.processed_parts_count,
                             den |-> 7 * fountain_decoder_expected_part_count(Fountain)])

\* the two letters bytewords_encode writes for a byte
MinimalCode(byte) == << bytewords[byte + 1][1], bytewords[byte + 1][4] >>

str_to_upper(str) == [i \in 1..Len(str) |-> toupper(str[i])]

\* C30: for the encoder's non-empty payload B of length n, bytewords_encode
\* returns 2(n+4) characters, the two letters of each byte of B followed by
\* those of the four big-endian bytes of CRC32(B); bytewords_decode_raw
\* returns exactly B from that text, from its upper-case form and from its
\* lower-case form, and so does the decoder that has accepted the text as
\* emitted or in lower case; the 256 two-letter codes are pairwise distinct.
C30_BytewordsRoundTrip ==
  /\ Cardinality({MinimalCode(byte) : byte \in 0..255}) = 256
  /\ encoder.ok =>
       /\ bytewords_encode(encoder.cbor_data).ok
       /\ Len(bytewords_encode(encoder.cbor_data).encoded) = 2 * (Len(encoder.cbor_data) + 4)
       /\ bytewords_encode(encoder.cbor_data).encoded
            = Flatten([i \in 1..(Len(encoder.cbor_data) + 4) |->
                         MinimalCode((encoder.cbor_data \o crc32_calculate(encoder.cbor_data))[i])])
       /\ bytewords_decode_raw(bytewords_encode(encoder.cbor_data).encoded)
            = [ok |-> TRUE, decoded |-> encoder.cbor_data]
       /\ bytewords_decode_raw(str_to_upper(bytewords_encode(encoder.cbor_data).encoded))
            = [ok |-> TRUE, decoded |-> encoder.cbor_data]
       /\ bytewords_decode_raw(str_to_lower(str_to_upper(bytewords_encode(encoder.cbor_data).encoded)))
            = [ok |-> TRUE, decoded |-> encoder.cbor_data]
       /\ (ur_decoder_is_success(decoder) /\ altered \in {"none", "lower_case"}) =>
            decoder.result[1].cbor_data = encoder.cbor_data

\* the decoder has returned the longest payload from the lower-case form of
\* the text the encoder emitted in upper case
C30_Witness ==
  /\ encoder.ok
  /\ ur_encoder_is_single_part(encoder)
  /\ Len(encoder.cbor_data) = MaxBytesLen
  /\ Len(emitted) = 1
  /\ emitted[1] = str_to_upper(emitted[1])
  /\ altered = "lower_case"
  /\ ret = "success"
  /\ ur_decoder_is_success(decoder)
  /\ decoder.result[1].cbor_data = encoder.cbor_data

\* the XOR of the encoder's source fragments named by a set of indexes
RECURSIVE SourceXor(_)
SourceXor(indexes) ==
  IF indexes = {} THEN Zeros(encoder.fountain_encoder.fragment_len)
  ELSE XorBytes(encoder.fountain_encoder.fragments[(CHOOSE i \in indexes : TRUE) + 1],
                SourceXor(indexes \ {CHOOSE i \in indexes : TRUE}))

\* C31: when every part the decoder received is a part of the one encoder,
\* each known fragment i holds source fragment i of the payload, and the
\* bytes of each pending mixed equation are the XOR of the source fragments
\* its index set names (the key of the entry and the indexes of the stored
\* part name the same set).
C31_EquationsSound ==
  altered = "none" =>
    /\ \A i \in 1..Len(Fountain.simple_parts) :
         /\ Fountain.simple_parts[i].key < SeqLen
         /\ Fountain.simple_parts[i].value.indexes = << Fountain.simple_parts[i].key >>
         /\ Fountain.simple_parts[i].value.data
              = encoder.fountain_encoder.fragments[Fountain.simple_parts[i].key + 1]
    /\ \A i \in 1..Len(Pending(Fountain)) :
         /\ IndexSet(Pending(Fountain)[i].value.indexes) = IndexSet(Pending(Fountain)[i].key)
         /\ IndexSet(Pending(Fountain)[i].key) \subseteq 0..(SeqLen - 1)
         /\ Pending(Fountain)[i].value.data = SourceXor(IndexSet(Pending(Fountain)[i].key))

\* a fragment derived from a mixed part is known next to a fragment that
\* arrived alone, and an equation of two fragments is pending
C31_Witness ==
  /\ altered = "none"
  /\ SeqLen = 3
  /\ ~fountain_decoder_is_complete(Fountain)
  /\ Len(Fountain.simple_parts) >= 1
  /\ \E i \in 1..Len(Pending(Fountain)) : Len(Pending(Fountain)[i].key) = 2

\* the index sets of the parts delivered so far in CascadeSpec
DeliveredIndexSets ==
  {IndexSet(DecoderIndexes(emitted[i]).part.indexes) : i \in 1..Delivered}

\* C32: when receive_part has returned and the decoder is not complete, no
\* equation is left with exactly one index that is not known: every part
\* delivered so far has none or at least two of its indexes unknown, and
\* every entry of the pending table that names one index names a known
\* fragment.  (An equation that a reduction left with one unknown index was
\* enqueued and its fragment recorded before the call returned.)
C32_NoDerivedFragmentLost ==
  ~fountain_decoder_is_complete(Fountain) =>
    /\ \A indexes \in DeliveredIndexSets :
         Cardinality(indexes \ KnownIndexes(Fountain)) # 1
    /\ \A i \in 1..Len(Pending(Fountain)) :
         Len(Pending(Fountain)[i].key) = 1 =>
           Pending(Fountain)[i].key[1] \in KnownIndexes(Fountain)

\* C33: whenever receive_part has returned and the decoder is not complete,
\* no pending mixed equation names the index of a known fragment.
C33_PendingReduced ==
  ~fountain_decoder_is_complete(Fountain) =>
    \A i \in 1..Len(Pending(Fountain)) :
      IndexSet(Pending(Fountain)[i].key) \cap KnownIndexes(Fountain) = {}

\* the index sets of the emitted parts the decoder holds a fingerprint of:
\* with unaltered parts, the distinct parts accepted so far
AcceptedIndexSets ==
  {IndexSet(DecoderIndexes(emitted[i]).part.indexes) :
     i \in {j \in 1..Len(emitted) :
              /\ IsMultiPart(emitted[j])
              /\ hash_set_contains(Fountain.received_fragments_hashes,
                                   hash_indexes(DecoderIndexes(emitted[j]).part.indexes))}}

\* the rank over GF(2) of a family of index sets, by elimination: take a
\* non-empty set and one of its indexes, add the set to every other set
\* that holds the index, and go on with the others
RECURSIVE Rank(_)
Rank(sets) ==
  IF sets \subseteq {{}} THEN 0
  ELSE LET pivot == CHOOSE a \in sets : a # {}
           index == CHOOSE x \in pivot : TRUE
       IN  1 + Rank({IF index \in b THEN (b \ pivot) \cup (pivot \ b) ELSE b :
                       b \in sets \ {pivot}})

FullRank(sets, seq_len) ==
  /\ \A a \in sets : a \subseteq 0..(seq_len - 1)
  /\ Rank(sets) = seq_len

\* C34: with unaltered parts of one encoder and neither the cap on pending
\* equations nor the cap on fingerprints reached, whenever the index sets of
\* the distinct parts accepted so far have full rank over GF(2), the decoder
\* is complete when receive_part has returned, whatever the arrival order.
C34_GaussJordanComplete ==
  (/\ altered = "none"
   /\ SeqLen >= 2
   /\ Fountain.mixed_parts_hash.count < MAX_MIXED_PARTS
   /\ Len(Fountain.received_fragments_hashes.hashes) < MAX_DUPLICATE_TRACKING
   /\ FullRank(AcceptedIndexSets, SeqLen))
    => fountain_decoder_is_complete(Fountain)

\* C35: every pending entry is found by a lookup of its current index set,
\* and an attempt to insert another equation under that index set is
\* refused.
C35_Rebucketed ==
  \A i \in 1..Len(Pending(Fountain)) :
    /\ mixed_hash_contains(Fountain.mixed_parts_hash, Pending(Fountain)[i].key)
    /\ ~mixed_hash_put(Fountain.mixed_parts_hash, Pending(Fountain)[i].key,
                       Pending(Fountain)[i].value).ok


\* the fountain decoder as the drain loop of fountain_decoder_receive_part
\* finds it: the expected values adopted, the fingerprint recorded, the part
\* on the queue
EnqueuedPart(fd, part) ==
  LET adopted == AdoptExpected(fd, part)
      decoder_part == create_decoder_part_from_encoder_part(part).part
  IN  queue_enqueue([adopted EXCEPT
                       !.received_fragments_hashes =
                          hash_set_add(@, hash_indexes(decoder_part.indexes)),
                       !.last_part_indexes = decoder_part.indexes],
                    decoder_part)

\* the call gets as far as the drain loop
ReachesLoop(fd, part) ==
  /\ ~fountain_decoder_is_complete(fd)
  /\ ~(fd.has_received_fragment /\ part.seq_num = fd.last_fragment_seq_num)
  /\ create_decoder_part_from_encoder_part(part).ok
  /\ ~hash_set_contains(AdoptExpected(fd, part).received_fragments_hashes,
                        hash_indexes(create_decoder_part_from_encoder_part(part).part.indexes))
  /\ Len(fd.queue) < QUEUE_INITIAL_CAPACITY

\* iterations of the drain loop are counted up to this many
DrainFuel == 16

\* the number of iterations the drain loop makes from a decoder, counted from
\* n; DrainFuel + 1 when it is still running after DrainFuel
RECURSIVE DrainSteps(_, _)
DrainSteps(fd, n) ==
  IF fountain_decoder_is_complete(fd) \/ Len(fd.queue) = 0 THEN n
  ELSE IF n >= DrainFuel THEN n + 1
  ELSE DrainSteps(process_queue_item(fd), n + 1)

\* the multi-part texts the channel can deliver next
Arriving ==
  {text \in {emitted[i] : i \in 1..Len(emitted)}
            \cup (IF altered = "none"
                  THEN UNION {{a.text : a \in Alterations(emitted[i])} : i \in 1..Len(emitted)}
                  ELSE {}) :
     IsMultiPart(text) /\ SequenceOf(text).ok /\ HeaderOf(text).ok}

\* the iterations of the drain loop when the text is received now
StepsFor(text) ==
  DrainSteps(EnqueuedPart(Fountain, FountainPartOf(SequenceOf(text), HeaderOf(text))), 0)

\* C36: in every state, for every part that can arrive and reaches the drain
\* loop of fountain_decoder_receive_part, the loop ends after finitely many
\* iterations (at most DrainFuel of them within the bounds of the model).
C36_DrainTerminates ==
  \A text \in Arriving :
    ReachesLoop(Fountain, FountainPartOf(SequenceOf(text), HeaderOf(text)))
      => StepsFor(text) <= DrainFuel

\* a part whose arrival sets off a cascade: the loop runs three times or more
C36_Witness ==
  \E text \in Arriving :
    /\ ReachesLoop(Fountain, FountainPartOf(SequenceOf(text), HeaderOf(text)))
    /\ StepsFor(text) >= 3
    /\ StepsFor(text) <= DrainFuel


\* the parts the decoder holds and the parts that can arrive
HeldParts ==
  {Fountain.simple_parts[i].value : i \in 1..Len(Fountain.simple_parts)}
    \cup {Pending(Fountain)[i].value : i \in 1..Len(Pending(Fountain))}
    \cup {DecoderIndexes(emitted[i]).part :
            i \in {j \in 1..Len(emitted) : IsMultiPart(emitted[j])}}

\* the same as table entries
HeldEntries ==
  {[key |-> Pending(Fountain)[i].key, value |-> Pending(Fountain)[i].value] :
     i \in 1..Len(Pending(Fountain))}
    \cup {[key |-> part.indexes, value |-> part] : part \in HeldParts}

\* reduce_part_by_part left a as it was, or left fewer indexes and at least one
Shrunk(a, b, reduced) ==
  /\ IndexSet(a.indexes) = IndexSet(b.indexes) => reduced = a
  /\ reduced # a =>
       /\ IndexSet(reduced.indexes) # {}
       /\ IndexSet(reduced.indexes) \subseteq IndexSet(a.indexes)
       /\ Cardinality(IndexSet(reduced.indexes)) < Cardinality(IndexSet(a.indexes))
       /\ Len(reduced.indexes) = Cardinality(IndexSet(reduced.indexes))

\* the cross-reduction of two entries, when it is one the scan would add
CrossShrunk(x, y, diff) ==
  IsCandidate(<< x, y >>, 1, 2) =>
    /\ IndexSet(diff.indexes) # {}
    /\ \/ Cardinality(IndexSet(diff.indexes)) < Cardinality(IndexSet(x.key))
       \/ Cardinality(IndexSet(diff.indexes)) < Cardinality(IndexSet(y.key))

SameIndexSet(i, j) ==
  /\ IsMultiPart(emitted[i]) /\ IsMultiPart(emitted[j])
  /\ SequenceOf(emitted[i]).seq_num # SequenceOf(emitted[j]).seq_num
  /\ IndexSet(DecoderIndexes(emitted[i]).part.indexes)
       = IndexSet(DecoderIndexes(emitted[j]).part.indexes)

\* the second call left the fountain decoder as the first call had left it
DroppedAfter(first, second) ==
  second.ok /\ second.decoder.fountain_decoder = first.decoder.fountain_decoder

\* C38: two parts with different sequence numbers whose index sets are equal
\* as sets have the same fingerprint, and a fresh decoder that received the
\* one drops the other as a duplicate.
C38_FingerprintBySet ==
  \A i, j \in 1..Len(emitted) :
    SameIndexSet(i, j) =>
      /\ hash_indexes(DecoderIndexes(emitted[i]).part.indexes)
           = hash_indexes(DecoderIndexes(emitted[j]).part.indexes)
      /\ DroppedAfter(ur_decoder_receive_part(ur_decoder_new, emitted[i]),
                      ur_decoder_receive_part(
                        ur_decoder_receive_part(ur_decoder_new, emitted[i]).decoder,
                        emitted[j]))


\* the single-part UR of the payload under the same type
SinglePartText == ur_encoder_next_part(ur_encoder_new(UrType, Payload, Len(Payload), 0, 1)).ur_string

\* the decoder has accepted a multi-part part and is not complete
MultiPartUnderWay ==
  /\ Fountain.processed_parts_count >= 1
  /\ ~ur_decoder_is_complete(decoder)

\* C39: a decoder that has accepted a multi-part part and is not complete is
\* not completed, and gets no result, by a single-part UR of the same type.
C39_NoSinglePartShortcut ==
  MultiPartUnderWay =>
    /\ ~ur_decoder_is_complete(ur_decoder_receive_part(decoder, SinglePartText).decoder)
    /\ Len(ur_decoder_receive_part(decoder, SinglePartText).decoder.result) = 0


\* C40: the encoder, built with first_seq_num 0, is not complete before its
\* first part and is complete whenever seq_len or more calls of
\* ur_encoder_next_part have succeeded, a single-fragment encoder included.
C40_EncoderCompletion ==
  /\ Len(emitted) = 0 => ~ur_encoder_is_complete(encoder)
  /\ Len(emitted) >= SeqLen => ur_encoder_is_complete(encoder)

=============================================================================
